---------------------------- MODULE Spec2Model ----------------------------
(***************************************************************************)
(* A model of velodyne-rs: the packet parser (packet/mod.rs), the HDL-32   *)
(* and HDL-64 convertors (hdl32.rs, hdl64/convertor.rs), PointSource and   *)
(* TurnIterator (lib.rs), the HDL-64 status accumulator                    *)
(* (hdl64/status_accum.rs, hdl64/status.rs), the pcap packet source        *)
(* (packet/pcap.rs), the XML calibration loader (hdl64/xml.rs).            *)
(*                                                                         *)
(* Byte slices are functions over 0..n-1, as in the source (0-based).      *)
(* Iterators are sequences (1-based) holding the items in yield order.     *)
(***************************************************************************)
EXTENDS Integers, Sequences, FiniteSets, TLC

VARIABLES
    input,          \* harness: the parameters of the raw packet under test
    stage,          \* harness: which function was applied to `input`
    parsed,         \* the value returned by parse_packet
    conv,           \* the value returned by convert and its sink calls
    rot,            \* harness: the azimuths of one rotation of the source
    sensor,         \* which convertor the PointSource was built with
    prev_azimuth,   \* TurnIterator.prev_azimuth
    split_azimuth,  \* TurnIterator.split_azimuth
    cap,            \* TurnIterator.cap
    pc,             \* "idle", or "loop" inside a call of TurnIterator::next
    buf,            \* the Vec of the running call of next
    nsink,          \* history: number of sink calls made so far
    pulled,         \* history: per packet obtained, its status and outcome
    fed,            \* history: the status pairs passed to StatusListener::feed
    log,            \* history: the calls made by the last process_points
    turns,          \* history: the turns yielded by next
    dropped,        \* history: a call of next failed since the last turn
    last,           \* history: the crossing decision of the last pass of next
    api,            \* history: what the last pass of next returned
    accum,          \* the StatusAccumulator
    status,         \* the Status the accumulator writes
    calib_db,       \* the CalibDb the accumulator writes (its 64 lasers)
    feeder,         \* harness: the position of the sensor in its status cycle
    nfed,           \* history: number of pairs passed to the accumulator
    outcome,        \* history: the path of the last feed through the code
    fedpair,        \* history: the pair passed by the last feed
    ctor,           \* the position of hdl64_init and what it returned
    pfile,          \* harness: the pcap file under test and the build
    psrc,           \* the PcapSource: its cursor position
    pret,           \* history: what the last call on the PcapSource returned
    probe,          \* harness: the arguments of the function under test
    result          \* the value the function under test returned

packetVars == <<input, stage, parsed, conv, rot>>
turnVars == <<sensor, prev_azimuth, split_azimuth, cap, pc, buf, nsink,
              pulled, fed, log, turns, dropped, last, api>>
accVars == <<accum, status, calib_db, feeder, nfed, outcome, fedpair, ctor>>
pcapVars == <<pfile, psrc, pret>>
calcVars == <<probe, result>>
extVars == <<pcapVars, calcVars>>
vars == <<packetVars, turnVars, accVars, extVars>>

None == "none"

-----------------------------------------------------------------------------
(* packet/mod.rs: layout constants                                         *)

PACKET_SIZE == 1206
BLOCKS == 12
LASERS == 32
POINT_SIZE == 3
HEADER_SIZE == 2
AZIMUTH_SIZE == 2
BLOCK_SIZE == HEADER_SIZE + AZIMUTH_SIZE + POINT_SIZE * LASERS
BLOCKS_SIZE == BLOCKS * BLOCK_SIZE
STATUS_ID == 1204
STATUS_VALUE == 1205

U16_MAX == 65535

\* b"\xFF\xEE" and b"\xFF\xDD"
HDR_UPPER == <<255, 238>>
HDR_LOWER == <<255, 221>>

-----------------------------------------------------------------------------
(* Slices and little-endian reads (byteorder::LE)                          *)

SliceLen(s) == Cardinality(DOMAIN s)

\* &s[a..b]
Slice(s, a, b) == [i \in 0..(b - a - 1) |-> s[a + i]]

\* mutant: the two bytes read in big-endian order
LE_read_u16_BigEndian(s) == 256 * s[0] + s[1]

LE_read_u16(s) == s[0] + 256 * s[1]

LE_read_u32(s) == s[0] + 256 * s[1] + 65536 * s[2] + 16777216 * s[3]

\* s.chunks_exact(n): the chunks in order, a remainder shorter than n dropped
chunks_exact(s, n) ==
    [c \in 1..(SliceLen(s) \div n) |-> Slice(s, (c - 1) * n, c * n)]

-----------------------------------------------------------------------------
(* packet/mod.rs: get_status, parse_packet                                 *)

get_status(data) == [id |-> data[STATUS_ID], value |-> data[STATUS_VALUE]]

\* the closure of the inner map: (laser, chunk) -> RawPoint
RawPointOf(laser, chunk) ==
    [distance |-> LE_read_u16(Slice(chunk, 0, 2)),
     intensity |-> chunk[2],
     laser |-> laser % 256]

\* mutant: only the low byte of the distance is tested
KeepPoint_LowByte(point) == point.distance % 256 # 0

KeepPoint(point) == point.distance # 0

\* block[4..100].chunks_exact(3).enumerate().map(..).filter(..)
block_iter(block) ==
    LET chunks == chunks_exact(Slice(block, 4, 100), 3)
        mapped == [j \in 1..Len(chunks) |-> RawPointOf(j - 1, chunks[j])]
    IN  SelectSeq(mapped, KeepPoint)

\* the closure of the outer map: block -> (header, azimuth, block_iter)
BlockOf(block) ==
    [header |-> <<block[0], block[1]>>,
     azimuth |-> LE_read_u16(Slice(block, 2, 4)),
     points |-> block_iter(block)]

parse_packet(data) ==
    LET timestamp == LE_read_u32(Slice(data, BLOCKS_SIZE, BLOCKS_SIZE + 4))
        a0 == LE_read_u16(Slice(data, HEADER_SIZE, HEADER_SIZE + AZIMUTH_SIZE))
        chunks == chunks_exact(Slice(data, 0, 1200), 100)
        iter == [k \in 1..Len(chunks) |-> BlockOf(chunks[k])]
    IN  [meta |-> [azimuth |-> a0, timestamp |-> timestamp,
                   status |-> get_status(data)],
         blocks |-> iter]


-----------------------------------------------------------------------------
(* f32 arithmetic. A value is the fraction [n, d] in lowest terms (d > 0)  *)
(* of the real number the f32 stands for; the inputs of the                *)
(* specifications are chosen so that the real result is either exactly     *)
(* representable or not within 0.01 of an integer, where the rounding of   *)
(* f32 cannot change the integer the code converts it to.                  *)

Abs(x) == IF x < 0 THEN -x ELSE x

RECURSIVE Gcd(_, _)
Gcd(a, b) == IF b = 0 THEN a ELSE Gcd(b, a % b)

Frac(n, d) ==
    LET g == Gcd(Abs(n), Abs(d))
        s == IF d < 0 THEN -1 ELSE 1
    IN  [n |-> (s * n) \div g, d |-> (s * d) \div g]

F32(x) == [n |-> x, d |-> 1]
FAdd(a, b) == Frac(a.n * b.d + b.n * a.d, a.d * b.d)
FSub(a, b) == Frac(a.n * b.d - b.n * a.d, a.d * b.d)
FMul(a, b) == Frac(a.n * b.n, a.d * b.d)
FDiv(a, b) == Frac(a.n * b.d, a.d * b.n)
FAbs(a) == [n |-> Abs(a.n), d |-> a.d]
FLess(a, b) == a.n * b.d < b.n * a.d

\* `r as u8` for 0 <= r <= 255: the fraction is dropped
FAsU8(a) == a.n \div a.d

-----------------------------------------------------------------------------
(* A FullPoint handed to the sink.  xyz and the HDL-64 intensity are       *)
(* floating-point functions of the raw distance, the block azimuth and the *)
(* laser's table or calibration entry; the model keeps these arguments,    *)
(* and for the HDL-32 the xyz term built from them.                        *)
(* `src` is not a field of FullPoint: it records the block and the slot of *)
(* the packet the point was read from.                                     *)

FullPoint(laser_id, raw_point, azimuth, timestamp, k) ==
    [laser_id |-> laser_id,
     distance |-> raw_point.distance,
     azimuth |-> azimuth,
     intensity |-> raw_point.intensity,
     timestamp |-> timestamp,
     src |-> [block |-> k, slot |-> raw_point.laser]]

-----------------------------------------------------------------------------
(* hdl32.rs: Hdl32Convertor::convert                                       *)

\* mutant: only the first header byte is compared
Hdl32HeaderOk_FirstByte(header) == header[1] = HDR_UPPER[1]

\* in the loops below prev_az is the local prev_azimuth of convert
Hdl32HeaderOk(header) == header = HDR_UPPER

\* the vertical angle of each laser, in hundredths of a degree
HDL_32_TABLE ==
    <<-3067, -933, -2933, -800, -2800, -667, -2667, -533,
      -2533, -400, -2400, -267, -2267, -133, -2133, 0,
      -2000, 133, -1867, 267, -1733, 400, -1600, 533,
      -1467, 667, -1333, 800, -1200, 933, -1067, 1067>>

\* sine and cosine are kept as terms of the angle, which is in hundredths
\* of a degree; Times(d, fs) is the f32 product ((d * fs[1]) * fs[2]) ..
Sin(a) == [f |-> "sin", of |-> a]
Cos(a) == [f |-> "cos", of |-> a]
Times(d, fs) == [dist |-> d, times |-> fs]

\* mutant: the azimuth's sine and cosine change places
hdl32_compute_xyz_Swapped(dist, a_sin, a_cos, w) ==
    <<Times(dist, <<Cos(w), a_cos>>),
      Times(dist, <<Cos(w), a_sin>>),
      Times(dist, <<Sin(w)>>)>>

\* compute_xyz(dist, (a_sin, a_cos), w)
hdl32_compute_xyz(dist, a_sin, a_cos, w) ==
    <<Times(dist, <<Cos(w), a_sin>>),
      Times(dist, <<Cos(w), a_cos>>),
      Times(dist, <<Sin(w)>>)>>

\* mutant: the distance is taken in centimetres
hdl32_distance_Cm(raw) == Frac(raw, 100)

\* (raw_point.distance as f32)/500.
hdl32_distance(raw) == Frac(raw, 500)

\* the FullPoint of the inner loop
Hdl32FullPoint(raw_point, azimuth, timestamp, k) ==
    LET distance == hdl32_distance(raw_point.distance)
        hor_angle == HDL_32_TABLE[raw_point.laser + 1]
    IN  FullPoint(raw_point.laser, raw_point, azimuth, timestamp, k)
        @@ [xyz |-> hdl32_compute_xyz(distance, Sin(azimuth), Cos(azimuth),
                                      hor_angle)]

\* the double-return test of the inner loop
Hdl32IsRepeat(azimuth, prev_az, cached, distance) ==
    azimuth = prev_az /\ cached = distance

\* the inner loop over block_iter, from the cache it starts with.  The
\* points of one block have distinct lasers (parse_packet enumerates the
\* slots), so each iteration reads and writes a cache slot of its own:
\* the points that pass the test are emitted in order, and every laser of
\* the block gets 0 (repeat) or its distance (emitted) in the cache.
Hdl32Points(b, prev_az, timestamp, k, cache) ==
    LET Repeat(pt) ==
            Hdl32IsRepeat(b.azimuth, prev_az, cache[pt.laser], pt.distance)
        Passes(pt) == ~Repeat(pt)
        kept == SelectSeq(b.points, Passes)
    IN  [cache |->
            [l \in DOMAIN cache |->
                IF \E n \in 1..Len(b.points) : b.points[n].laser = l
                THEN LET pt == b.points[CHOOSE n \in 1..Len(b.points) :
                                            b.points[n].laser = l]
                     IN  IF Repeat(pt) THEN 0 ELSE pt.distance
                ELSE cache[l]],
         sink |->
            [n \in 1..Len(kept) |->
                Hdl32FullPoint(kept[n], b.azimuth, timestamp, k)]]

\* the outer loop over the blocks
RECURSIVE Hdl32Blocks(_, _, _, _, _)
Hdl32Blocks(p, k, prev_az, cache, sink) ==
    IF k > Len(p.blocks) THEN [ok |-> TRUE, meta |-> p.meta, sink |-> sink]
    ELSE LET b == p.blocks[k]
         IN  IF ~Hdl32HeaderOk(b.header)
             THEN [ok |-> FALSE, meta |-> None, sink |-> sink]
             ELSE LET st == Hdl32Points(b, prev_az, p.meta.timestamp,
                                k - 1, cache)
                  IN  Hdl32Blocks(p, k + 1, b.azimuth, st.cache, sink \o st.sink)

Hdl32Convert(raw) ==
    Hdl32Blocks(parse_packet(raw), 1, U16_MAX, [l \in 0..31 |-> 0], <<>>)

-----------------------------------------------------------------------------
(* hdl64/convertor.rs: Hdl64Convertor::convert                             *)

\* the match on the block header: the `_` arm returns Err(ConversionError)
Hdl64HeaderOk(header) == header = HDR_UPPER \/ header = HDR_LOWER

\* mutant: the two banks swapped
Hdl64LaserDelta_Swapped(header) == IF header = HDR_UPPER THEN 32 ELSE 0

\* laser_delta of an accepted header
Hdl64LaserDelta(header) == IF header = HDR_UPPER THEN 0 ELSE 32

\* mutant: the azimuth comparison left out
Hdl64IsRepeat_AnyAzimuth(azimuth, prev_az, cached, distance) ==
    cached = distance

Hdl64IsRepeat(azimuth, prev_az, cached, distance) ==
    azimuth = prev_az /\ cached = distance

\* the inner loop over block_iter (see Hdl32Points)
Hdl64Points(b, prev_az, laser_delta, timestamp, k, cache) ==
    LET LaserId(pt) == (pt.laser + laser_delta) % 256
        Repeat(pt) ==
            Hdl64IsRepeat(b.azimuth, prev_az, cache[LaserId(pt)], pt.distance)
        Passes(pt) == ~Repeat(pt)
        kept == SelectSeq(b.points, Passes)
    IN  [cache |->
            [l \in DOMAIN cache |->
                IF \E n \in 1..Len(b.points) : LaserId(b.points[n]) = l
                THEN LET pt == b.points[CHOOSE n \in 1..Len(b.points) :
                                            LaserId(b.points[n]) = l]
                     IN  IF Repeat(pt) THEN 0 ELSE pt.distance
                ELSE cache[l]],
         sink |->
            [n \in 1..Len(kept) |->
                FullPoint(LaserId(kept[n]), kept[n], b.azimuth, timestamp, k)]]

RECURSIVE Hdl64Blocks(_, _, _, _, _)
Hdl64Blocks(p, k, prev_az, cache, sink) ==
    IF k > Len(p.blocks) THEN [ok |-> TRUE, meta |-> p.meta, sink |-> sink]
    ELSE LET b == p.blocks[k]
             laser_delta == Hdl64LaserDelta(b.header)
         IN  IF ~Hdl64HeaderOk(b.header)
             THEN [ok |-> FALSE, meta |-> None, sink |-> sink]
             ELSE LET st == Hdl64Points(b, prev_az, laser_delta,
                                p.meta.timestamp, k - 1, cache)
                  IN  Hdl64Blocks(p, k + 1, b.azimuth, st.cache, sink \o st.sink)

Hdl64Convert(raw) ==
    Hdl64Blocks(parse_packet(raw), 1, U16_MAX, [l \in 0..63 |-> 0], <<>>)

-----------------------------------------------------------------------------
(* The raw packets under test.  A packet is laid out from a header layout, *)
(* an azimuth layout and a point layout (RawPacket, 1206 bytes).           *)

HeaderAt(hl, k) ==
    CASE hl.kind = "all" -> hl.h
      [] hl.kind = "alt" -> IF k % 2 = 0 THEN HDR_UPPER ELSE HDR_LOWER
      [] hl.kind = "one" -> IF k = hl.k THEN hl.h ELSE HDR_UPPER

AzimuthAt(al, base, k) ==
    CASE al = "inc"    -> (base + 20 * k) % 65536
      [] al = "pairs"  -> (base + 20 * (k \div 2)) % 65536
      [] al = "triple" -> (base + 20 * (k \div 3)) % 65536
      [] al = "same"   -> base

DistanceAt(dl, k, j) ==
    CASE dl = "none" -> 0
      [] dl = "one"  -> IF k = 0 /\ j = 0 THEN 500 ELSE 0
      [] dl = "last" -> IF k = BLOCKS - 1 /\ j = LASERS - 1 THEN 65535 ELSE 0
      [] dl = "same" -> IF j = 0 THEN 300 ELSE IF j = 7 THEN 1
                        ELSE IF j = 31 THEN 256 ELSE 0
      [] dl = "alt"  -> IF j = 0 THEN 300 + (k % 2)
                        ELSE IF j = 31 /\ k % 2 = 0 THEN 256 ELSE 0
      [] dl = "full" -> IF k = 0 THEN 1000 + j
                        ELSE IF k # 1 /\ j = 5 THEN 1005 ELSE 0
      [] dl = "few"  -> IF k = 0 /\ j \in {3, 9} THEN 700 + j
                        ELSE IF k = BLOCKS - 1 /\ j = 1 THEN 700 ELSE 0

IntensityAt(k, j) == (7 * k + j + 1) % 256

MkPacket(in) ==
    [i \in 0..(PACKET_SIZE - 1) |->
        IF i < BLOCKS_SIZE
        THEN LET k == i \div BLOCK_SIZE
                 o == i % BLOCK_SIZE
                 j == (o - 4) \div POINT_SIZE
                 f == (o - 4) % POINT_SIZE
             IN  IF o < 2 THEN HeaderAt(in.hdr, k)[o + 1]
                 ELSE IF o = 2 THEN AzimuthAt(in.az, in.base, k) % 256
                 ELSE IF o = 3 THEN AzimuthAt(in.az, in.base, k) \div 256
                 ELSE IF f = 0 THEN DistanceAt(in.pts, k, j) % 256
                 ELSE IF f = 1 THEN DistanceAt(in.pts, k, j) \div 256
                 ELSE IntensityAt(k, j)
        ELSE IF i < STATUS_ID
        THEN (in.ts \div (256 ^ (i - BLOCKS_SIZE))) % 256
        ELSE in.st[i - STATUS_ID + 1]]

BadHeaders == {<<0, 0>>, <<238, 255>>}

UniformHeaderLayouts ==
    {[kind |-> "all", h |-> h] : h \in {HDR_UPPER, HDR_LOWER}}
    \cup {[kind |-> "alt"]}

\* one block, at any of the 12 positions, with another header than FF EE
OddHeaderLayouts ==
    {[kind |-> "one", k |-> k, h |-> h] :
        k \in 0..(BLOCKS - 1), h \in BadHeaders \cup {HDR_LOWER}}

AzimuthLayouts == {"inc", "pairs", "triple", "same"}

BaseAzimuths == {0, 4096, U16_MAX}

PointLayouts == {"none", "one", "last", "same", "alt", "full"}

\* 0x04030201
TestTimestamp == 1 + 256 * 2 + 65536 * 3 + 16777216 * 4

PacketInputs ==
    {[hdr |-> hl, az |-> al, base |-> b, pts |-> dl,
      ts |-> TestTimestamp, st |-> <<72, 23>>] :
        hl \in UniformHeaderLayouts, al \in AzimuthLayouts,
        b \in BaseAzimuths, dl \in PointLayouts}
    \cup
    {[hdr |-> hl, az |-> "pairs", base |-> 4096, pts |-> dl,
      ts |-> TestTimestamp, st |-> <<72, 23>>] :
        hl \in OddHeaderLayouts, dl \in {"none", "same", "full"}}

\* the raw packet of the current state
raw_packet == MkPacket(input)

-----------------------------------------------------------------------------
(* The packets a packet source hands out in the runs of TurnIterator: a    *)
(* few azimuths, three points in two blocks each, and a distinct status    *)
(* pair per packet.                                                        *)

StreamAzimuths == {0, 18000, 35999}

StreamInput(hl, a, id) ==
    [hdr |-> hl, az |-> "inc", base |-> a, pts |-> "few",
     ts |-> TestTimestamp, st |-> <<id, a % 256>>]

\* well-formed packets, a packet with a wrong header on its second block,
\* and a lower-bank packet (well-formed for HDL-64 only)
StreamInputs ==
    {StreamInput([kind |-> "all", h |-> HDR_UPPER], a, 72) : a \in StreamAzimuths}
    \cup {StreamInput([kind |-> "one", k |-> 1, h |-> <<0, 0>>], 18000, 77)}
    \cup {StreamInput([kind |-> "all", h |-> HDR_LOWER], 18000, 83)}

RotAzimuths == {0, 100, 18000, 35900, 35999}

RotInput(a) == StreamInput([kind |-> "all", h |-> HDR_UPPER], a, 72)

RECURSIVE SortedSeq(_)
SortedSeq(S) ==
    IF S = {} THEN <<>>
    ELSE LET m == CHOOSE x \in S : \A y \in S : x <= y
         IN  <<m>> \o SortedSeq(S \ {m})

\* one rotation: azimuths increasing strictly, at least two packets
Rotations == {SortedSeq(S) : S \in {T \in SUBSET RotAzimuths : Cardinality(T) >= 2}}

RotSplits ==
    {0, 35999} \cup RotAzimuths
    \cup {a + 1 : a \in RotAzimuths \ {35999}}
    \cup {a - 1 : a \in RotAzimuths \ {0}}

MaxPulls == 3
MaxRotations == 3

-----------------------------------------------------------------------------
(* lib.rs: PointSource::process_points, TurnIterator                       *)

\* convertor.convert(packet, process_point) of the PointSource's convertor
Convert(kind, raw) ==
    IF kind = "hdl32" THEN Hdl32Convert(raw) ELSE Hdl64Convert(raw)

\* what a packet is and does under each convertor, computed once per packet
PacketTable ==
    [in \in StreamInputs \cup {RotInput(a) : a \in RotAzimuths} |->
        LET raw == MkPacket(in)
        IN  [status |-> get_status(raw),
             hdl32 |-> Convert("hdl32", raw),
             hdl64 |-> Convert("hdl64", raw)]]

Converted(kind, in) ==
    IF kind = "hdl32" THEN PacketTable[in].hdl32 ELSE PacketTable[in].hdl64

\* mutant: the status pair is fed whether or not the conversion succeeded
process_points_FeedAlways(c) ==
    [ok |-> c.ok, meta |-> c.meta, sink |-> c.sink,
     feed |-> IF c.ok THEN <<c.meta.status>> ELSE <<[id |-> 0, value |-> 0]>>,
     calls |-> <<[op |-> "next_packet", res |-> "some"],
                 [op |-> "convert", ok |-> c.ok],
                 [op |-> "feed", status |-> [id |-> 0, value |-> 0]]>>]

\* mutant: the status pair is fed before the packet is converted
process_points_FeedFirst(c) ==
    [ok |-> c.ok, meta |-> c.meta, sink |-> c.sink,
     feed |-> <<[id |-> 1, value |-> 1]>>,
     calls |-> <<[op |-> "next_packet", res |-> "some"],
                 [op |-> "convert", ok |-> c.ok]>>]

\* process_points once next_packet has returned Some(packet): the calls it
\* makes in order, the points its sink received and what it returns.
\* `c` is the outcome of convertor.convert on the packet.
process_points(c) ==
    IF ~c.ok
    THEN [ok |-> FALSE, sink |-> c.sink, feed |-> <<>>,
          calls |-> <<[op |-> "next_packet", res |-> "some"],
                      [op |-> "convert", ok |-> FALSE]>>]
    ELSE [ok |-> TRUE, meta |-> c.meta, sink |-> c.sink,
          feed |-> <<c.meta.status>>,
          calls |-> <<[op |-> "next_packet", res |-> "some"],
                      [op |-> "convert", ok |-> TRUE],
                      [op |-> "feed", status |-> c.meta.status]>>]

\* mutant: the points of a packet put in front of the buffer
BufPush_Front(b, points) == points \o b

\* the sink of next: |point| buf.push(point), for the points of one packet
BufPush(b, points) == b \o points

\* mutant: prev > sa for prev >= sa
flag_Strict(prev, azimuth, sa) ==
    IF prev > azimuth
    THEN ~(prev > sa /\ sa > azimuth)
    ELSE azimuth >= sa /\ sa > prev

\* mutant: the wrap branch left out
flag_NoWrap(prev, azimuth, sa) == azimuth >= sa /\ sa > prev

\* the crossing test of next
flag(prev, azimuth, sa) ==
    IF prev > azimuth
    THEN ~(prev >= sa /\ sa > azimuth)
    ELSE azimuth >= sa /\ sa > prev

max(a, b) == IF a >= b THEN a ELSE b

\* the points of a packet as the sink receives them, numbered by packet
\* and by position in the stream of all sink calls
Tagged(points, pkt, from) ==
    [n \in 1..Len(points) |->
        [point |-> points[n], pkt |-> pkt, seq |-> from + n]]

NoDecision == [valid |-> FALSE, prev |-> 0, curr |-> 0, sa |-> 0, cut |-> FALSE]

\* next was not called yet
NoCall == [call |-> None, ret |-> None]

\* a pass of next and what the call returned in it ("running": the loop
\* goes on)
NextCall(ret) == [call |-> "next", ret |-> ret]

\* the state TurnIterator::hdl32_init or hdl64_init returns
TurnInit ==
    /\ prev_azimuth = 0
    /\ split_azimuth = 0
    /\ cap = 0
    /\ pc = "idle"
    /\ buf = <<>>
    /\ nsink = 0
    /\ pulled = <<>>
    /\ fed = <<>>
    /\ log = <<>>
    /\ turns = <<>>
    /\ dropped = FALSE
    /\ last = NoDecision
    /\ api = NoCall

\* mutant: the value is added to the stored one
split_azimuth_Add(old, val) == (old + val) % 36000

\* the value set_split_azimuth stores (`old` is the value it replaces)
split_azimuth_of(old, val) == val % 36000

\* TurnIterator::set_split_azimuth
set_split_azimuth(val) ==
    /\ pc = "idle"
    /\ split_azimuth' = split_azimuth_of(split_azimuth, val)
    /\ UNCHANGED api
    /\ UNCHANGED <<sensor, prev_azimuth, cap, pc, buf, nsink, pulled, fed, log,
                   turns, dropped, last>>

\* one pass of the loop of next in which the source returns Some(packet)
\* (the first pass runs on the fresh Vec of the call)
NextSome(in) ==
    LET r == process_points(Converted(sensor, in))
        pkt == Len(pulled) + 1
        buf1 == BufPush(buf, Tagged(r.sink, pkt, nsink))
    IN  /\ nsink' = nsink + Len(r.sink)
        /\ fed' = fed \o r.feed
        /\ log' = r.calls
        /\ api' = NextCall(IF ~r.ok THEN "err"
                           ELSE IF flag(prev_azimuth, r.meta.azimuth, split_azimuth)
                           THEN "turn" ELSE "running")
        /\ IF ~r.ok
           THEN \* Err(err) => return Some(Err(err))
                /\ pulled' = Append(pulled,
                      [status |-> PacketTable[in].status, ok |-> FALSE,
                       azimuth |-> AzimuthAt(in.az, in.base, 0), cut |-> FALSE])
                /\ pc' = "idle"
                /\ buf' = <<>>
                /\ dropped' = TRUE
                /\ last' = NoDecision
                /\ UNCHANGED <<prev_azimuth, cap, turns>>
           ELSE LET azimuth == r.meta.azimuth
                    sa == split_azimuth
                    f == flag(prev_azimuth, azimuth, sa)
                IN  /\ prev_azimuth' = azimuth
                    /\ pulled' = Append(pulled,
                          [status |-> PacketTable[in].status, ok |-> TRUE,
                           azimuth |-> azimuth, cut |-> f])
                    /\ last' = [valid |-> TRUE, prev |-> prev_azimuth,
                                curr |-> azimuth, sa |-> sa, cut |-> f]
                    /\ IF f
                       THEN /\ cap' = max(cap, (11 * Len(buf1)) \div 10)
                            /\ turns' = Append(turns,
                                  [points |-> buf1, status |-> fed',
                                   start |-> nsink' - Len(buf1), end |-> nsink',
                                   gap |-> dropped])
                            /\ pc' = "idle"
                            /\ buf' = <<>>
                            /\ dropped' = FALSE
                       ELSE /\ pc' = "loop"
                            /\ buf' = buf1
                            /\ UNCHANGED <<cap, turns, dropped>>
        /\ UNCHANGED <<sensor, split_azimuth>>

\* mutant: the last status pair is fed again when the source is exhausted
process_points_none_Feeds ==
    [ok |-> TRUE, some |-> FALSE, sink |-> <<>>,
     feed |-> <<[id |-> 0, value |-> 0]>>,
     calls |-> <<[op |-> "next_packet", res |-> "none"],
                 [op |-> "feed", status |-> [id |-> 0, value |-> 0]]>>]

\* process_points once next_packet has returned None: it returns Ok(None)
process_points_none ==
    [ok |-> TRUE, some |-> FALSE, sink |-> <<>>, feed |-> <<>>,
     calls |-> <<[op |-> "next_packet", res |-> "none"]>>]

\* mutant: the buffer of the call outlives it
NextNone_KeepsBuf ==
    LET r == process_points_none
    IN  /\ nsink' = nsink + Len(r.sink)
        /\ fed' = fed \o r.feed
        /\ log' = r.calls
        /\ api' = NextCall(IF r.ok /\ ~r.some THEN "none" ELSE "err")
        /\ pc' = pc
        /\ dropped' = TRUE
        /\ last' = NoDecision
        /\ UNCHANGED <<sensor, prev_azimuth, split_azimuth, cap, pulled, turns,
                       buf>>

\* a pass in which the source is exhausted: Ok(None) => return None
NextNone ==
    LET r == process_points_none
    IN  /\ nsink' = nsink + Len(r.sink)
        /\ fed' = fed \o r.feed
        /\ log' = r.calls
        /\ api' = NextCall(IF r.ok /\ ~r.some THEN "none" ELSE "err")
        /\ pc' = "idle"
        /\ buf' = <<>>
        /\ dropped' = TRUE
        /\ last' = NoDecision
        /\ UNCHANGED <<sensor, prev_azimuth, split_azimuth, cap, pulled, turns>>

\* a pass in which the source fails: next_packet()? returns the i/o error
NextIoErr ==
    /\ log' = <<[op |-> "next_packet", res |-> "err"]>>
    /\ api' = NextCall("err")
    /\ pc' = "idle"
    /\ buf' = <<>>
    /\ dropped' = TRUE
    /\ last' = NoDecision
    /\ UNCHANGED <<sensor, prev_azimuth, split_azimuth, cap, nsink, pulled, fed,
                   turns>>

-----------------------------------------------------------------------------
(* hdl64/status_accum.rs: the status accumulator of the HDL-64.            *)
(*                                                                         *)
(* Bytes are numbers in 0..255; arrays are functions over 0..n-1. A        *)
(* DateTime<Utc> is the record of its calendar fields. The f32 fields of   *)
(* LaserCalib that the code computes as v / 10.0 hold the integer v; a     *)
(* sine or cosine is the term [f, of] naming the function and the integer  *)
(* v of the angle v / 100.0 degrees.                                       *)

LASER_COUNT == 64
CALIB_SIZE == 21
CYCLE_SIZE == 7

\* the ids of the first nine positions of a mini-cycle: "HMSDNYGTV"
FixedIds == <<72, 77, 83, 68, 78, 89, 71, 84, 86>>

\* b"1234567"
Ids1234567 == [i \in 0..6 |-> 49 + i]

\* b"W234567"
IdsW234567 == [i \in 0..6 |-> IF i = 0 THEN 87 ELSE 49 + i]

\* b"12345" followed by 0xf7, 0xf6
IdsFirstCycle == [i \in 0..6 |-> IF i = 5 THEN 247 ELSE IF i = 6 THEN 246 ELSE 49 + i]

\* mutant: the marker in lower case
ValsUnit_Lower == [i \in 0..4 |-> <<117, 110, 105, 116, 35>>[i + 1]]

\* b"UNIT#"
ValsUnit == [i \in 0..4 |-> <<85, 78, 73, 84, 35>>[i + 1]]

\* [0xfe, 0xff, 0xfc, 0xfd, 0xfa, 0xfb, 0x37]
IdsSensorState0 == [i \in 0..6 |-> <<254, 255, 252, 253, 250, 251, 55>>[i + 1]]

\* [0x31, 0x32, 0xf9, 0x34, 0xf8, 0x36, 0x37]
IdsSensorState2 == [i \in 0..6 |-> <<49, 50, 249, 52, 248, 54, 55>>[i + 1]]

\* enum CycleState
FirstCycle == [tag |-> "FirstCycle", laser |-> 0, part |-> 0]
Lasers(laser, part) == [tag |-> "Lasers", laser |-> laser, part |-> part]
CalibrationDt == [tag |-> "CalibrationDt", laser |-> 0, part |-> 0]
SensorState(part) == [tag |-> "SensorState", laser |-> 0, part |-> part]

\* mutant: the two bytes read as an unsigned value
read_i16_Unsigned(s) == s[0] + 256 * s[1]

\* read_i16 at the cursor: little-endian, two's complement
read_i16(s) ==
    LET u == s[0] + 256 * s[1]
    IN  IF u >= 32768 THEN u - 65536 ELSE u

\* read_u16 at the cursor
read_u16(s) == LE_read_u16(s)

\* NaiveDate::from_ymd_opt accepts the days of the proleptic Gregorian
\* calendar
DaysInMonth(y, month) ==
    IF month \in {1, 3, 5, 7, 8, 10, 12} THEN 31
    ELSE IF month \in {4, 6, 9, 11} THEN 30
    ELSE IF (y % 4 = 0 /\ y % 100 # 0) \/ y % 400 = 0 THEN 29 ELSE 28

\* mutant: every month has 31 days
get_dt_AnyDay(year, month, day, h, m, s) ==
    [ok |-> month \in 1..12 /\ day \in 1..31 /\ h < 24 /\ m < 60 /\ s < 60,
     dt |-> [year |-> year + 2000, month |-> month, day |-> day,
             hour |-> h, min |-> m, sec |-> s]]

get_dt(year, month, day, h, m, s) ==
    LET y == year + 2000
    IN  [ok |-> /\ month \in 1..12
                /\ day \in 1..DaysInMonth(y, month)
                /\ h < 24 /\ m < 60 /\ s < 60,
         dt |-> [year |-> y, month |-> month, day |-> day,
                 hour |-> h, min |-> m, sec |-> s]]

default_sensor_status ==
    LET dt == get_dt(0, 1, 1, 0, 0, 0).dt
    IN  [dt |-> dt,
         gps |-> "NotConnected",
         temperature |-> 0,
         version |-> 0,
         lens_contamination |-> FALSE,
         hot |-> FALSE,
         cold |-> FALSE,
         pps |-> FALSE,
         gps_time |-> FALSE,
         rpm |-> 0,
         fov_start |-> 0,
         fov_end |-> 0,
         real_life_time |-> 0,
         ip_source |-> <<0, 0, 0, 0>>,
         ip_dest |-> <<0, 0, 0, 0>>,
         return_type |-> "Strongest",
         power_level |-> [kind |-> "AutoNormalized", level |-> 0],
         humidity |-> 0,
         upper_threshold |-> 0,
         lower_threshold |-> 0,
         calib_dt |-> dt]

\* f32::default() in both fields of a sine/cosine pair
ZeroF32 == [f |-> "zero", of |-> 0]

\* LaserCalib::default()
LaserCalibDefault ==
    [min_intensity |-> 0, max_intensity |-> 0,
     rot_corr_sin |-> ZeroF32, rot_corr_cos |-> ZeroF32,
     vert_corr_sin |-> ZeroF32, vert_corr_cos |-> ZeroF32,
     dist_correction |-> 0, dist_corr_x |-> 0, dist_corr_y |-> 0,
     vert_offset |-> 0, horiz_offset |-> 0, focal_dist |-> 0,
     focal_slope |-> 0]

\* CalibDb::default().lasers
CalibDbDefault == [i \in 0..(LASER_COUNT - 1) |-> LaserCalibDefault]

\* StatusAccumulator::default()
AccumDefault ==
    [init |-> FALSE,
     dt |-> [i \in 0..5 |-> 0],
     gps_val |-> 0,
     temp_val |-> 0,
     version_val |-> 0,
     cycle_ids |-> [i \in 0..(CYCLE_SIZE - 1) |-> 0],
     cycle_values |-> [i \in 0..(CYCLE_SIZE - 1) |-> 0],
     cycle_pos |-> 0,
     cycle_state |-> FirstCycle,
     lasers |-> [i \in 0..(LASER_COUNT - 1) |-> [j \in 0..(CALIB_SIZE - 1) |-> 0]],
     sensor_state |-> [j \in 0..(CALIB_SIZE - 1) |-> 0]]

\* process_warning
process_warning(b, st) ==
    [st EXCEPT !.lens_contamination = (b % 2 = 1),
               !.hot = ((b \div 2) % 2 = 1),
               !.cold = ((b \div 4) % 2 = 1),
               !.pps = ((b \div 32) % 2 = 1),
               !.gps_time = ((b \div 64) % 2 = 1)]

\* the body of the loop of process_calib_db for one laser buffer
LaserCalibOf(data) ==
    LET vert_corr == read_i16(Slice(data, 1, 3))
        rot_corr == read_i16(Slice(data, 3, 5))
    IN  [min_intensity |-> data[19], max_intensity |-> data[20],
         rot_corr_sin |-> [f |-> "sin", of |-> rot_corr],
         rot_corr_cos |-> [f |-> "cos", of |-> rot_corr],
         vert_corr_sin |-> [f |-> "sin", of |-> vert_corr],
         vert_corr_cos |-> [f |-> "cos", of |-> vert_corr],
         dist_correction |-> read_i16(Slice(data, 5, 7)),
         dist_corr_x |-> read_i16(Slice(data, 7, 9)),
         dist_corr_y |-> read_i16(Slice(data, 9, 11)),
         vert_offset |-> read_i16(Slice(data, 11, 13)),
         horiz_offset |-> read_i16(Slice(data, 13, 15)),
         focal_dist |-> read_i16(Slice(data, 15, 17)),
         focal_slope |-> read_i16(Slice(data, 17, 19))]

\* process_calib_db: panics at the first laser whose buffer does not start
\* with its own number
process_calib_db(a, db) ==
    IF \E i \in 0..(LASER_COUNT - 1) : a.lasers[i][0] # i
    THEN [panic |-> TRUE, db |-> db]
    ELSE [panic |-> FALSE,
          db |-> [i \in 0..(LASER_COUNT - 1) |-> LaserCalibOf(a.lasers[i])]]

\* match d[16]
ReturnTypeOf(v) ==
    CASE v = 0 -> "Strongest"
      [] v = 1 -> "Last"
      [] v = 2 -> "Both"
      [] OTHER -> None

\* mutant: the manual level is not limited to 0..7
PowerLevelOf_AnyNibble(v) ==
    CASE v = 168 -> [kind |-> "AutoNormalized", level |-> 0]
      [] v = 160 -> [kind |-> "AutoRaw", level |-> 0]
      [] v % 16 = 8 -> [kind |-> "Manual", level |-> v \div 16]
      [] OTHER -> [kind |-> None, level |-> 0]

\* match d[18]
PowerLevelOf(v) ==
    CASE v = 168 -> [kind |-> "AutoNormalized", level |-> 0]
      [] v = 160 -> [kind |-> "AutoRaw", level |-> 0]
      [] v % 16 = 8 /\ (v \div 16) < 8 -> [kind |-> "Manual", level |-> v \div 16]
      [] OTHER -> [kind |-> None, level |-> 0]

\* process_full_cycle: the flag is set first, then the sensor state is
\* decoded field by field; a `return Err` keeps the fields already written
process_full_cycle(a, st, db) ==
    LET a1 == [a EXCEPT !.init = TRUE]
        d == a.sensor_state
        st1 == [st EXCEPT !.rpm = read_u16(Slice(d, 0, 2)),
                          !.fov_start = read_u16(Slice(d, 2, 4)),
                          !.fov_end = read_u16(Slice(d, 4, 6)),
                          !.real_life_time = read_u16(Slice(d, 6, 8)),
                          !.ip_source = <<d[8], d[9], d[10], d[11]>>,
                          !.ip_dest = <<d[12], d[13], d[14], d[15]>>]
        rt == ReturnTypeOf(d[16])
        st2 == [st1 EXCEPT !.return_type = rt]
        pl == PowerLevelOf(d[18])
        st3 == [st2 EXCEPT !.power_level = pl]
        c == process_calib_db(a1, db)
    IN  IF rt = None
        THEN [ok |-> FALSE, accum |-> a1, status |-> st1, calib_db |-> db,
              panic |-> FALSE]
        ELSE IF pl.kind = None
        THEN [ok |-> FALSE, accum |-> a1, status |-> st2, calib_db |-> db,
              panic |-> FALSE]
        ELSE [ok |-> TRUE, accum |-> a1, status |-> st3, calib_db |-> c.db,
              panic |-> c.panic]

\* mutant: the laser number of part 0 is not compared
LaserIdOk_Unchecked(laser, part, vals) == TRUE

\* part == 0 && vals[0] != laser as u8 makes consume_cycle return Ok(false)
LaserIdOk(laser, part, vals) == ~(part = 0 /\ vals[0] # laser % 256)

\* mutant: part 3 is skipped
LasersNext_SkipWarning(laser, part) ==
    IF laser = 63 /\ part = 2 THEN CalibrationDt
    ELSE IF part = 2 THEN Lasers(laser + 1, 0)
    ELSE Lasers(laser, part + 1)

\* the state after parts 0, 1, 2 of a laser
LasersNext(laser, part) ==
    IF laser = 63 /\ part = 2 THEN CalibrationDt
    ELSE Lasers(laser, part + 1)

\* dst[s..s+7].copy_from_slice(&vals)
copy_from_slice(dst, s, vals) ==
    [j \in DOMAIN dst |-> IF j \in s..(s + CYCLE_SIZE - 1) THEN vals[j - s] ELSE dst[j]]

\* what consume_cycle returns when it leaves before the assignment of
\* cycle_state: Ok(false) or Err(desc)
ConsumeReturn(res, a, st, db, panic) ==
    [res |-> res, accum |-> a, status |-> st, calib_db |-> db, panic |-> panic]

\* self.process_full_cycle(status, calib_db)?; CycleState::FirstCycle
full_cycle_step(r) ==
    IF ~r.ok
    THEN ConsumeReturn("err", r.accum, r.status, r.calib_db, r.panic)
    ELSE ConsumeReturn("true", [r.accum EXCEPT !.cycle_state = FirstCycle],
                       r.status, r.calib_db, r.panic)

\* consume_cycle: "true", "false" and "err" stand for Ok(true), Ok(false)
\* and Err(desc)
consume_cycle(a, st, db) ==
    LET ids == a.cycle_ids
        vals == a.cycle_values
        cs == a.cycle_state
    IN  CASE cs.tag = "FirstCycle" ->
                IF ids # IdsFirstCycle THEN ConsumeReturn("false", a, st, db, FALSE)
                ELSE IF Slice(vals, 0, 5) # ValsUnit
                THEN ConsumeReturn("false", a, st, db, FALSE)
                ELSE ConsumeReturn("true",
                        [a EXCEPT !.cycle_state = Lasers(0, 0)],
                        [st EXCEPT !.upper_threshold = vals[5],
                                   !.lower_threshold = vals[6]],
                        db, FALSE)
          [] cs.tag = "Lasers" /\ cs.part \in {0, 1, 2} ->
                IF ids # Ids1234567 THEN ConsumeReturn("false", a, st, db, FALSE)
                ELSE IF ~LaserIdOk(cs.laser, cs.part, vals)
                THEN ConsumeReturn("false", a, st, db, FALSE)
                ELSE IF a.init
                THEN ConsumeReturn("true",
                        [a EXCEPT !.cycle_state = LasersNext(cs.laser, cs.part)],
                        st, db, FALSE)
                ELSE IF cs.laser >= LASER_COUNT
                THEN \* index out of bounds
                     ConsumeReturn("true", a, st, db, TRUE)
                ELSE ConsumeReturn("true",
                        [a EXCEPT !.lasers[cs.laser] =
                                        copy_from_slice(@, 7 * cs.part, vals),
                                  !.cycle_state = LasersNext(cs.laser, cs.part)],
                        st, db, FALSE)
          [] cs.tag = "Lasers" /\ cs.part = 3 ->
                IF ids # IdsW234567 THEN ConsumeReturn("false", a, st, db, FALSE)
                ELSE ConsumeReturn("true",
                        [a EXCEPT !.cycle_state = Lasers(cs.laser + 1, 0)],
                        process_warning(vals[0], st), db, FALSE)
          [] cs.tag = "Lasers" /\ cs.part > 3 ->
                ConsumeReturn("err", a, st, db, FALSE)
          [] cs.tag = "CalibrationDt" ->
                IF ids # Ids1234567 THEN ConsumeReturn("false", a, st, db, FALSE)
                ELSE LET r == get_dt(vals[0], vals[1], vals[2],
                                     vals[3], vals[4], vals[5])
                     IN  IF ~r.ok THEN ConsumeReturn("err", a, st, db, FALSE)
                         ELSE ConsumeReturn("true",
                                [a EXCEPT !.cycle_state = SensorState(0)],
                                [st EXCEPT !.calib_dt = r.dt,
                                           !.humidity = vals[6]],
                                db, FALSE)
          [] cs.tag = "SensorState" /\ cs.part = 0 ->
                IF ids # IdsSensorState0 THEN ConsumeReturn("false", a, st, db, FALSE)
                ELSE ConsumeReturn("true",
                        [a EXCEPT !.sensor_state = copy_from_slice(@, 0, vals),
                                  !.cycle_state = SensorState(1)],
                        st, db, FALSE)
          [] cs.tag = "SensorState" /\ cs.part = 1 ->
                IF ids # Ids1234567 THEN ConsumeReturn("false", a, st, db, FALSE)
                ELSE ConsumeReturn("true",
                        [a EXCEPT !.sensor_state = copy_from_slice(@, 7, vals),
                                  !.cycle_state = SensorState(2)],
                        st, db, FALSE)
          [] cs.tag = "SensorState" /\ cs.part = 2 ->
                IF ids # IdsSensorState2 THEN ConsumeReturn("false", a, st, db, FALSE)
                ELSE full_cycle_step(process_full_cycle(
                        [a EXCEPT !.sensor_state = copy_from_slice(@, 14, vals)],
                        st, db))
          [] OTHER -> ConsumeReturn("err", a, st, db, FALSE)

\* match self.gps_val
GpsStatusOf(v) ==
    CASE v = 65 -> "SyncNmea"
      [] v = 86 -> "NmeaOnly"
      [] v = 80 -> "SyncOnly"
      [] v = 0 -> "NotConnected"
      [] OTHER -> None

\* update_status: each `?` or `return Err` keeps the fields already written
update_status(a, st) ==
    LET r == get_dt(a.dt[0], a.dt[1], a.dt[2], a.dt[3], a.dt[4], a.dt[5])
        st1 == [st EXCEPT !.dt = r.dt]
        gps == GpsStatusOf(a.gps_val)
    IN  IF ~r.ok THEN [ok |-> FALSE, status |-> st]
        ELSE IF gps = None THEN [ok |-> FALSE, status |-> st1]
        ELSE [ok |-> TRUE,
              status |-> [st1 EXCEPT !.gps = gps,
                                     !.temperature = a.temp_val,
                                     !.version = a.version_val]]

\* the position of an id in "HMSDNYGTV", or 9 for any other id
FixedPos(id) ==
    IF \E k \in 1..9 : FixedIds[k] = id
    THEN (CHOOSE k \in 1..9 : FixedIds[k] = id) - 1
    ELSE 9

\* the arms of match status.id: the assignment each arm makes
StoreFixed(a, k, value) ==
    CASE k = 0 -> [a EXCEPT !.dt[3] = value]
      [] k = 1 -> [a EXCEPT !.dt[4] = value]
      [] k = 2 -> [a EXCEPT !.dt[5] = value]
      [] k = 3 -> [a EXCEPT !.dt[2] = value]
      [] k = 4 -> [a EXCEPT !.dt[1] = value]
      [] k = 5 -> [a EXCEPT !.dt[0] = value]
      [] k = 6 -> [a EXCEPT !.gps_val = value]
      [] k = 7 -> [a EXCEPT !.temp_val = value]
      [] k = 8 -> [a EXCEPT !.version_val = value]
      [] OTHER -> a

\* mutant: a pair out of position is taken as the next one
is_ok_Lenient(k, cycle_pos) == TRUE

\* the arms of match status.id: the value of is_ok
is_ok(k, cycle_pos) ==
    IF k < 9 THEN cycle_pos = k ELSE cycle_pos > 8 /\ cycle_pos < 16

\* mutant: a pair out of position also resets the state of the cycle
reject_reset_Hard(a) == [a EXCEPT !.cycle_pos = 0, !.cycle_state = FirstCycle]

\* if !is_ok { .. self.cycle_pos = 0; return; }
reject_reset(a) == [a EXCEPT !.cycle_pos = 0]

\* what feed leaves behind; `ev` and `full` record the path it took
FeedReturn(a, st, db, panic, ev, full) ==
    [accum |-> a, status |-> st, calib_db |-> db, panic |-> panic,
     ev |-> ev, full |-> full]

\* match self.consume_cycle(..) at position 15, and self.cycle_pos = 0;
\* `isfull` tells that the step called process_full_cycle
consume_step(c, isfull) ==
    IF c.res = "true"
    THEN FeedReturn([c.accum EXCEPT !.cycle_pos = 0],
                    c.status, c.calib_db, c.panic, "consume",
                    IF isfull THEN "ok" ELSE None)
    ELSE FeedReturn([c.accum EXCEPT !.cycle_state = FirstCycle, !.cycle_pos = 0],
                    c.status, c.calib_db, c.panic,
                    IF c.res = "false" THEN "consume_false" ELSE "consume_err",
                    IF isfull THEN "err" ELSE None)

\* StatusAccumulator::feed
feed(a, st, db, pair) ==
    LET k == FixedPos(pair.id)
        a1 == StoreFixed(a, k, pair.value)
        pos == a.cycle_pos
    IN  IF ~is_ok(k, pos)
        THEN FeedReturn(reject_reset(a1), st, db, FALSE, "reject", "none")
        ELSE IF pos = 8
        THEN LET u == update_status(a1, st)
             IN  IF u.ok
                 THEN FeedReturn([a1 EXCEPT !.cycle_pos = pos + 1],
                                 u.status, db, FALSE, "commit", "none")
                 ELSE FeedReturn([a1 EXCEPT !.cycle_state = FirstCycle,
                                            !.cycle_pos = pos + 1],
                                 u.status, db, FALSE, "commit_err", "none")
        ELSE IF pos <= 8
        THEN FeedReturn([a1 EXCEPT !.cycle_pos = pos + 1], st, db, FALSE,
                        "fixed", "none")
        ELSE IF pos - 9 >= CYCLE_SIZE
        THEN \* index out of bounds
             FeedReturn(a1, st, db, TRUE, "panic", "none")
        ELSE LET a2 == [a1 EXCEPT !.cycle_ids[pos - 9] = pair.id,
                                  !.cycle_values[pos - 9] = pair.value]
             IN  IF pos # 15
                 THEN FeedReturn([a2 EXCEPT !.cycle_pos = pos + 1], st, db,
                                 FALSE, "data", "none")
                 ELSE consume_step(consume_cycle(a2, st, db),
                                   a2.cycle_state = SensorState(2)
                                   /\ a2.cycle_ids = IdsSensorState2)

-----------------------------------------------------------------------------
(* The status cycles a sensor sends: 260 mini-cycles of 16 pairs. A cycle  *)
(* encodes the values of Content(v); the variants other than "A" and "B"   *)
(* send the pairs of "A" up to the pair listed in DivergeAt.               *)

MINI_SIZE == 16

\* FirstCycle, 64 lasers of 4 parts less the last part, CalibrationDt and
\* three parts of SensorState
MINIS == 1 + (4 * LASER_COUNT - 1) + 1 + 3

CYCLE_PAIRS == MINIS * MINI_SIZE

\* the accumulator state that consumes mini-cycle m of the schedule
StateOf(m) ==
    IF m = 0 THEN FirstCycle
    ELSE IF m < 4 * LASER_COUNT THEN Lasers((m - 1) \div 4, (m - 1) % 4)
    ELSE IF m = 4 * LASER_COUNT THEN CalibrationDt
    ELSE SensorState(m - 4 * LASER_COUNT - 1)

\* variants whose sensor-state bytes 16 and 18 differ from those of "A"
ReturnVariants ==
    [ret1 |-> 1, ret2 |-> 2, ret3 |-> 3, ret255 |-> 255]

PowerVariants ==
    [pwA0 |-> 160, pw08 |-> 8, pw78 |-> 120, pw88 |-> 136, pw00 |-> 0,
     pw79 |-> 121, pwA9 |-> 169]

TailVariants == DOMAIN ReturnVariants \cup DOMAIN PowerVariants

\* variants that are not well formed: an invalid date in the window of a
\* mini-cycle, an invalid calibration date, a laser part 0 that carries the
\* number of another laser
BadVariants == {"baddt", "badcdt", "badlaser"}

Variants == {"A", "B"} \cup TailVariants \cup BadVariants

BadDtMini == 4 * LASER_COUNT - 4
BadLaser == LASER_COUNT - 2

\* the i16 fields and intensities of laser i in the calibration of a cycle
LaserContent(v, i) ==
    IF v = "B"
    THEN [vert_corr |-> i - 32, rot_corr |-> 2 * i, dist_correction |-> -i,
          dist_corr_x |-> 3, dist_corr_y |-> -3, vert_offset |-> 1000 + i,
          horiz_offset |-> -1000 - i, focal_dist |-> 0, focal_slope |-> 127,
          min_intensity |-> 255 - i, max_intensity |-> i]
    ELSE [vert_corr |-> 100 * i - 3000, rot_corr |-> -(i + 1),
          dist_correction |-> 32767 - i, dist_corr_x |-> i - 32768,
          dist_corr_y |-> i, vert_offset |-> 256 * i,
          horiz_offset |-> -256 * i, focal_dist |-> 255, focal_slope |-> -1,
          min_intensity |-> i, max_intensity |-> 255 - i]

\* the values a cycle of variant v encodes
Content(v) ==
    IF v = "B"
    THEN [upper |-> 255, lower |-> 0, rpm |-> 65535, fov_start |-> 256,
          fov_end |-> 1, real_life_time |-> 0,
          ip_source |-> <<10, 0, 0, 255>>, ip_dest |-> <<255, 255, 255, 255>>,
          ret |-> 2, power |-> 56, humidity |-> 99,
          calib_dt |-> <<0, 1, 1, 0, 0, 0>>,
          dt |-> <<24, 2, 29, 0, 0, 1>>, gps |-> 86, temp |-> 200,
          version |-> 255, warning |-> 70]
    ELSE [upper |-> 10, lower |-> 20, rpm |-> 600, fov_start |-> 0,
          fov_end |-> 35999, real_life_time |-> 4660,
          ip_source |-> <<192, 168, 3, 43>>, ip_dest |-> <<192, 168, 3, 255>>,
          ret |-> IF v \in DOMAIN ReturnVariants THEN ReturnVariants[v] ELSE 0,
          power |-> IF v \in DOMAIN PowerVariants THEN PowerVariants[v] ELSE 168,
          humidity |-> 55,
          calib_dt |-> <<15, IF v = "badcdt" THEN 13 ELSE 6, 30, 12, 30, 45>>,
          dt |-> <<19, 2, 28, 23, 59, 7>>, gps |-> 65, temp |-> 40,
          version |-> 1, warning |-> 33]

\* the two bytes of a u16 or an i16, least significant first
EncodeLE16(x) == <<(x % 65536) % 256, (x % 65536) \div 256>>

\* the 21 bytes of a laser of the calibration table
EncodeLaser(v, i) ==
    LET c == LaserContent(v, i)
        bytes == <<IF v = "badlaser" /\ i = BadLaser THEN i - 1 ELSE i>>
                 \o EncodeLE16(c.vert_corr) \o EncodeLE16(c.rot_corr)
                 \o EncodeLE16(c.dist_correction) \o EncodeLE16(c.dist_corr_x)
                 \o EncodeLE16(c.dist_corr_y) \o EncodeLE16(c.vert_offset)
                 \o EncodeLE16(c.horiz_offset) \o EncodeLE16(c.focal_dist)
                 \o EncodeLE16(c.focal_slope)
                 \o <<c.min_intensity, c.max_intensity>>
    IN  [j \in 0..(CALIB_SIZE - 1) |-> bytes[j + 1]]

\* the 21 bytes of the sensor state
EncodeSensorState(v) ==
    LET c == Content(v)
        bytes == EncodeLE16(c.rpm) \o EncodeLE16(c.fov_start)
                 \o EncodeLE16(c.fov_end) \o EncodeLE16(c.real_life_time)
                 \o c.ip_source \o c.ip_dest
                 \o <<c.ret, 17, c.power, 19, 20>>
    IN  [j \in 0..(CALIB_SIZE - 1) |-> bytes[j + 1]]

\* the value sent at a fixed position p of 0..8 of mini-cycle m
FixedValueAt(v, m, p) ==
    LET c == Content(v)
    IN  CASE p = 0 -> c.dt[4]
          [] p = 1 -> c.dt[5]
          [] p = 2 -> (c.dt[6] + m) % 60
          [] p = 3 -> IF v = "baddt" /\ m = BadDtMini THEN 30 ELSE c.dt[3]
          [] p = 4 -> c.dt[2]
          [] p = 5 -> c.dt[1]
          [] p = 6 -> c.gps
          [] p = 7 -> c.temp
          [] p = 8 -> c.version

\* the ids of the seven payload pairs of mini-cycle m
PayloadIds(m) ==
    LET cs == StateOf(m)
    IN  CASE cs.tag = "FirstCycle" -> IdsFirstCycle
          [] cs.tag = "Lasers" /\ cs.part = 3 -> IdsW234567
          [] cs = SensorState(0) -> IdsSensorState0
          [] cs = SensorState(2) -> IdsSensorState2
          [] OTHER -> Ids1234567

\* the values of the seven payload pairs of mini-cycle m
PayloadValues(v, m) ==
    LET cs == StateOf(m)
        c == Content(v)
    IN  CASE cs.tag = "FirstCycle" ->
                [i \in 0..6 |-> IF i < 5 THEN ValsUnit[i]
                                ELSE IF i = 5 THEN c.upper ELSE c.lower]
          [] cs.tag = "Lasers" /\ cs.part < 3 ->
                Slice(EncodeLaser(v, cs.laser), 7 * cs.part, 7 * cs.part + 7)
          [] cs.tag = "Lasers" /\ cs.part = 3 ->
                [i \in 0..6 |-> IF i = 0 THEN (c.warning + cs.laser) % 128 ELSE i]
          [] cs.tag = "CalibrationDt" ->
                [i \in 0..6 |-> IF i < 6 THEN c.calib_dt[i + 1] ELSE c.humidity]
          [] cs.tag = "SensorState" ->
                Slice(EncodeSensorState(v), 7 * cs.part, 7 * cs.part + 7)

\* the pair sent at position p of mini-cycle m of a cycle of variant v
PairAt(v, m, p) ==
    IF p < 9
    THEN [id |-> FixedIds[p + 1], value |-> FixedValueAt(v, m, p)]
    ELSE [id |-> PayloadIds(m)[p - 9], value |-> PayloadValues(v, m)[p - 9]]

\* the first pair of a variant that differs from the pair of "A"
DivergeAt(v) ==
    CASE v = "B" -> <<0, 0>>
      [] v = "baddt" -> <<BadDtMini, 3>>
      [] v = "badlaser" -> <<1 + 4 * BadLaser, 9>>
      [] v = "badcdt" -> <<4 * LASER_COUNT, 10>>
      [] v \in DOMAIN ReturnVariants -> <<MINIS - 1, 11>>
      [] v \in DOMAIN PowerVariants -> <<MINIS - 1, 13>>

WellFormed == {"A", "B", "ret1", "ret2", "pwA0", "pw08", "pw78"}

-----------------------------------------------------------------------------
(* packet/pcap.rs: PcapSource over a memory-mapped file.                   *)
(*                                                                         *)
(* A file is its global header, its records and its length `flen`: record  *)
(* i is 16 bytes of meta (t_s, t_us, incl_len, orig_len) and incl_len      *)
(* bytes of frame. A file that was cut has a `flen` below the end of its   *)
(* last record. Positions are byte offsets; a packet is named by the       *)
(* offset of its first byte. The time stamps are taken to be valid and     *)
(* do_sync to be false (time_sync only sleeps); the address read from the  *)
(* frame is left out.                                                      *)

\* the bytes of the file that read_u32::<LE> reads as 0xa1b2c3d4,
\* 0xa1b23c4d, 0xd4c3b2a1 and 0x4d3cb2a1
MAGIC_LE_US == <<212, 195, 178, 161>>
MAGIC_LE_NS == <<77, 60, 178, 161>>
MAGIC_BE_US == <<161, 178, 195, 212>>
MAGIC_BE_NS == <<161, 178, 60, 77>>

PCAP_HEADER == 24
RECORD_META == 16

\* PACKET_SIZE as u32 + 42: Ethernet (14), IP (20) and UDP (8) headers
FRAME_MIN == PACKET_SIZE + 42

PcapErr(kind) == [kind |-> "err", err |-> kind]
PcapPanic(msg) == [kind |-> "panic", err |-> msg]

\* the match on the magic number
MagicOf(magic) ==
    CASE magic = MAGIC_LE_US -> [ok |-> TRUE, is_le |-> TRUE, is_nano |-> FALSE]
      [] magic = MAGIC_LE_NS -> [ok |-> TRUE, is_le |-> TRUE, is_nano |-> TRUE]
      [] magic = MAGIC_BE_US -> [ok |-> TRUE, is_le |-> FALSE, is_nano |-> FALSE]
      [] magic = MAGIC_BE_NS -> [ok |-> TRUE, is_le |-> FALSE, is_nano |-> TRUE]
      [] OTHER -> [ok |-> FALSE, is_le |-> FALSE, is_nano |-> FALSE]

\* PcapSource::read_header: the reads up to `network`, the three
\* assertions, the peek at the time of the first record
read_header(f, is_nano) ==
    IF f.flen < PCAP_HEADER THEN PcapErr("UnexpectedEof")
    ELSE IF f.version_major # 2 \/ f.version_minor # 4 \/ f.network # 1
    THEN PcapPanic("assert_eq")
    ELSE IF f.flen < PCAP_HEADER + 8 THEN PcapErr("UnexpectedEof")
    ELSE [kind |-> "ok", pos |-> PCAP_HEADER, is_nano |-> is_nano]

\* PcapSource::new, once the file is opened and mapped
pcap_new(f) ==
    IF f.flen < 4 THEN PcapErr("UnexpectedEof")
    ELSE LET m == MagicOf(f.magic)
         IN  IF ~m.ok THEN PcapErr("InvalidInput")
             ELSE IF ~m.is_le
             THEN PcapPanic("Big-endian pcap files currently not supported.")
             ELSE read_header(f, m.is_nano)

\* the offset of the meta of record i (1-based) of the file
RECURSIVE RecordStart(_, _)
RecordStart(recs, i) ==
    IF i = 1 THEN PCAP_HEADER
    ELSE RecordStart(recs, i - 1) + RECORD_META + recs[i - 1].incl_len

\* the record whose meta starts at `pos`, 0 if there is none
RecordAt(f, pos) ==
    IF \E i \in 1..Len(f.recs) : RecordStart(f.recs, i) = pos
    THEN CHOOSE i \in 1..Len(f.recs) : RecordStart(f.recs, i) = pos
    ELSE 0

\* mutant: a short record is skipped by its original length
SkipTo_OrigLen(eth_start, rec) == eth_start + rec.orig_len

\* self.file.set_position(eth_start + incl_len as u64)
SkipTo(eth_start, rec) == eth_start + rec.incl_len

\* mutant: the position is left where the truncated record starts
TruncatedAt_Stay(eth_start, rec) == eth_start - RECORD_META

\* the position read_packet leaves when it returns the truncated-packet
\* error
TruncatedAt(eth_start, rec) == eth_start + rec.incl_len

\* PcapSource::read_packet from position `pos`. A read that fails leaves
\* the position where it was. `skipped` counts the recursive calls.
RECURSIVE read_packet(_, _, _)
read_packet(f, pos, skipped) ==
    IF pos + RECORD_META > f.flen
    THEN [kind |-> "eof", pos |-> pos, skipped |-> skipped]
    ELSE LET rec == f.recs[RecordAt(f, pos)]
             eth_start == pos + RECORD_META
             delta == rec.orig_len - PACKET_SIZE - 16
         IN  IF rec.orig_len < FRAME_MIN
             THEN read_packet(f, SkipTo(eth_start, rec), skipped + 1)
             ELSE IF rec.orig_len > rec.incl_len
             THEN [kind |-> "err", err |-> "InvalidData",
                   pos |-> TruncatedAt(eth_start, rec), skipped |-> skipped]
             ELSE IF eth_start + delta + 16 > f.flen
             THEN [kind |-> "eof", pos |-> eth_start + delta,
                   skipped |-> skipped]
             ELSE [kind |-> "ok", udp_pos |-> eth_start + delta + 16,
                   pos |-> eth_start + rec.incl_len, skipped |-> skipped]

\* the Ok arm of next_packet: debug_assert!(buf.len() > pos + PACKET_SIZE)
\* in a build with debug assertions, then the view of PACKET_SIZE bytes at
\* `udp_pos`; `inside` tells that the view lies inside the mapped file
PacketView(f, r) ==
    IF f.debug /\ ~(f.flen > r.udp_pos + PACKET_SIZE)
    THEN [kind |-> "panic", err |-> "debug_assert", pos |-> r.pos,
          skipped |-> r.skipped]
    ELSE [kind |-> "some", packet |-> r.udp_pos,
          inside |-> r.udp_pos + PACKET_SIZE <= f.flen,
          pos |-> r.pos, skipped |-> r.skipped]

\* the arms of the match of next_packet on what read_packet returned
NextArm(f, r) ==
    CASE r.kind = "ok" -> PacketView(f, r)
      [] r.kind = "err" -> r
      [] OTHER -> [kind |-> "none", pos |-> r.pos, skipped |-> r.skipped]

\* PcapSource::next_packet. With do_loop, end of file resets the position
\* to PCAP_HEADER and calls next_packet again: when the file ends again
\* before a record is returned the calls never end ("diverge").
next_packet(f, pos) ==
    LET r == read_packet(f, pos, 0)
    IN  IF r.kind = "eof" /\ f.do_loop
        THEN LET r2 == read_packet(f, PCAP_HEADER, 0)
             IN  IF r2.kind = "eof"
                 THEN [kind |-> "diverge", pos |-> PCAP_HEADER,
                       skipped |-> r2.skipped]
                 ELSE NextArm(f, r2)
        ELSE NextArm(f, r)

-----------------------------------------------------------------------------
(* hdl64/convertor.rs: calib_intensity                                     *)

\* u8::saturating_sub
saturating_sub(a, b) == IF a >= b THEN a - b ELSE 0

\* mutant: the difference is taken as a signed number
intens_sub_Signed(a, b) == a - b

\* intens.saturating_sub(calib.min_intensity)
intens_sub(a, b) == saturating_sub(a, b)

\* mutant: the correction is not squared
focal_term_Linear(t1, t2) == FSub(t1, t2)

\* t3 = t1*t1 - t2*t2
focal_term(t1, t2) == FSub(FMul(t1, t1), FMul(t2, t2))

calib_intensity(intens, raw_distance, calib) ==
    LET t1 == FSub(F32(1), FDiv(calib.focal_dist, F32(13100)))
        t2 == FSub(F32(1), FDiv(F32(raw_distance), F32(65535)))
        t3 == focal_term(t1, t2)
        intens1 == F32(intens_sub(intens, calib.min_intensity))
        res == FAdd(intens1, FMul(FMul(F32(256), calib.focal_slope), FAbs(t3)))
    IN  IF FLess(F32(255), res) THEN 255
        ELSE IF FLess(res, F32(0)) THEN 0
        ELSE FAsU8(res)

-----------------------------------------------------------------------------
(* hdl64/xml.rs: parse_point_item. The parser events of a `px` item are    *)
(* the sequence of its elements [name, text] between <px> and </px>; a     *)
(* text is a number ([num |-> TRUE, v |-> ..]) or not a number. The sine   *)
(* and cosine of an angle are kept as terms, as in LaserCalibOf.           *)

\* the elements parse_point_item reads, in the order it reads them
PX_ELEMENTS ==
    <<"id_", "rotCorrection_", "vertCorrection_", "distCorrection_",
      "distCorrectionX_", "distCorrectionY_", "vertOffsetCorrection_",
      "horizOffsetCorrection_", "focalDistance_", "focalSlope_">>

\* get_node_val(parser, name)?.parse() on element n of the item
NodeVal(item, n) ==
    IF n > Len(item) \/ item[n].name # PX_ELEMENTS[n]
    THEN [ok |-> FALSE, err |-> "Expected node start"]
    ELSE IF ~item[n].text.num \/ (n = 1 /\ item[n].text.v < 0)
    THEN [ok |-> FALSE, err |-> "Failed to parse"]
    ELSE [ok |-> TRUE, val |-> item[n].text.v]

\* the assignment parse_point_item makes with the value of element n
PxAssign(l, n, val) ==
    CASE n = 2 -> [l EXCEPT !.rot_corr_sin = [f |-> "sin", of |-> val],
                            !.rot_corr_cos = [f |-> "cos", of |-> val]]
      [] n = 3 -> [l EXCEPT !.rot_corr_sin = [f |-> "sin", of |-> val],
                            !.rot_corr_cos = [f |-> "cos", of |-> val]]
      [] n = 4 -> [l EXCEPT !.dist_correction = val]
      [] n = 5 -> [l EXCEPT !.dist_corr_x = val]
      [] n = 6 -> [l EXCEPT !.dist_corr_y = val]
      [] n = 7 -> [l EXCEPT !.vert_offset = val]
      [] n = 8 -> [l EXCEPT !.horiz_offset = val]
      [] n = 9 -> [l EXCEPT !.focal_dist = val]
      [] n = 10 -> [l EXCEPT !.focal_slope = val]

\* the statements of parse_point_item from element n on, for laser i;
\* db.lasers[i] panics when i is not below 64
RECURSIVE PxFrom(_, _, _, _)
PxFrom(item, db, i, n) ==
    IF n > Len(PX_ELEMENTS)
    THEN IF Len(item) > Len(PX_ELEMENTS)
         THEN [kind |-> "err", err |-> "Expected node end", db |-> db]
         ELSE [kind |-> "ok", err |-> None, db |-> db]
    ELSE LET v == NodeVal(item, n)
         IN  IF ~v.ok THEN [kind |-> "err", err |-> v.err, db |-> db]
             ELSE IF i >= LASER_COUNT
             THEN [kind |-> "panic", err |-> "index out of bounds", db |-> db]
             ELSE PxFrom(item, [db EXCEPT ![i] = PxAssign(@, n, v.val)],
                         i, n + 1)

parse_point_item(item, db) ==
    LET id == NodeVal(item, 1)
    IN  IF ~id.ok THEN [kind |-> "err", err |-> id.err, db |-> db]
        ELSE PxFrom(item, db, id.val, 2)

-----------------------------------------------------------------------------
(* The accumulator and the Status and CalibDb it writes: the locals of     *)
(* StatusAccumulator::init while `init` is false, the fields of the        *)
(* StatusListener built from them afterwards.                              *)

MaxFeeds == 8320

NoOutcome ==
    [ev |-> None, full |-> None, panic |-> FALSE, became |-> FALSE, done |-> 0]

\* `ret` is what the source returned to the last next_packet of hdl64_init
FeederOff == [phase |-> "off", variant |-> "A", mini |-> 0, p |-> 0,
              past |-> <<>>, hfed |-> 0, ret |-> None]

\* StatusAccumulator::default() with default_sensor_status() and
\* CalibDb::default(), as StatusListener::init and StatusAccumulator::init
\* create them
AccumInit ==
    /\ accum = AccumDefault
    /\ status = default_sensor_status
    /\ calib_db = CalibDbDefault
    /\ nfed = 0
    /\ outcome = NoOutcome
    /\ fedpair = None

\* PointSource::hdl64_init: "init" inside StatusAccumulator::init, "built"
\* once the PointSource is constructed, "failed" once `?` has returned the
\* error `err`
CtorOff == [state |-> "off", err |-> None]
CtorRunning == [state |-> "init", err |-> None]

\* the specifications without an HDL-64 status stream
AccumIdle ==
    /\ AccumInit
    /\ feeder = FeederOff
    /\ ctor = CtorOff

\* the specifications without a pcap file and without a function under test
PcapIdle ==
    /\ pfile = None
    /\ psrc = None
    /\ pret = None

\* no function is under test
NoProbe == [fn |-> None]

CalcIdle ==
    /\ probe = NoProbe
    /\ result = None

ExtIdle == PcapIdle /\ CalcIdle

-----------------------------------------------------------------------------
(* Specification of the packet functions: a packet is chosen, then one of  *)
(* parse_packet, Hdl32Convertor::convert, Hdl64Convertor::convert is       *)
(* applied to it.                                                          *)

InitPacket ==
    /\ input \in PacketInputs
    /\ stage = "raw"
    /\ parsed = None
    /\ conv = None
    /\ rot = <<>>
    /\ sensor = None
    /\ TurnInit
    /\ AccumIdle
    /\ ExtIdle

ParsePacket ==
    /\ stage = "raw"
    /\ parsed' = parse_packet(raw_packet)
    /\ stage' = "parsed"
    /\ UNCHANGED <<input, conv, rot, turnVars, accVars, extVars>>

ConvertHdl32 ==
    /\ stage = "raw"
    /\ conv' = Hdl32Convert(raw_packet)
    /\ stage' = "hdl32"
    /\ UNCHANGED <<input, parsed, rot, turnVars, accVars, extVars>>

ConvertHdl64 ==
    /\ stage = "raw"
    /\ conv' = Hdl64Convert(raw_packet)
    /\ stage' = "hdl64"
    /\ UNCHANGED <<input, parsed, rot, turnVars, accVars, extVars>>

NextPacket == ParsePacket \/ ConvertHdl32 \/ ConvertHdl64

SpecPacket == InitPacket /\ [][NextPacket]_vars

-----------------------------------------------------------------------------
(* Specification of a TurnIterator over any packet source: each pass of    *)
(* next gets one of the stream packets, None or an i/o error.              *)

SplitValues == {0, 35999, 36000, 54000}

NoPacket ==
    /\ input = None
    /\ stage = "off"
    /\ parsed = None
    /\ conv = None

Init ==
    /\ NoPacket
    /\ rot = <<>>
    /\ sensor \in {"hdl32", "hdl64"}
    /\ TurnInit
    /\ AccumIdle
    /\ ExtIdle

SetSplit == \E val \in SplitValues : set_split_azimuth(val) /\ UNCHANGED <<packetVars, extVars, accVars>>

PullSome ==
    /\ Len(pulled) < MaxPulls
    /\ \E in \in StreamInputs : NextSome(in)
    /\ UNCHANGED <<packetVars, extVars, accVars>>

PullNone == NextNone /\ UNCHANGED <<packetVars, extVars, accVars>>

PullIoErr == NextIoErr /\ UNCHANGED <<packetVars, extVars, accVars>>

Next == SetSplit \/ PullSome \/ PullNone \/ PullIoErr

Spec == Init /\ [][Next]_vars

-----------------------------------------------------------------------------
(* Specification of a TurnIterator over a source that repeats one rotation *)
(* of well-formed packets, with the split azimuth set before the first     *)
(* call of next.                                                           *)

InitRot ==
    /\ NoPacket
    /\ rot \in Rotations
    /\ sensor \in {"hdl32", "hdl64"}
    /\ TurnInit
    /\ AccumIdle
    /\ ExtIdle

RotSetSplit ==
    /\ pulled = <<>>
    /\ \E val \in RotSplits : set_split_azimuth(val)
    /\ UNCHANGED <<packetVars, extVars, accVars>>

RotPull ==
    /\ Len(pulled) < MaxRotations * Len(rot)
    /\ NextSome(RotInput(rot[(Len(pulled) % Len(rot)) + 1]))
    /\ UNCHANGED <<packetVars, extVars, accVars>>

NextRot == RotSetSplit \/ RotPull

SpecRot == InitRot /\ [][NextRot]_vars

-----------------------------------------------------------------------------
(* Specification of the accumulator fed with the status cycles of a       *)
(* sensor, pair by pair.                                                   *)

\* the position after the pair at (mini, p) of a cycle of variant v
Advance(f, v) ==
    IF f.p < MINI_SIZE - 1 THEN [f EXCEPT !.variant = v, !.p = f.p + 1]
    ELSE IF f.mini < MINIS - 1
    THEN [f EXCEPT !.variant = v, !.mini = f.mini + 1, !.p = 0]
    ELSE [f EXCEPT !.variant = "A", !.mini = 0, !.p = 0,
                   !.past = Append(f.past, v)]

\* one iteration of the loop of StatusAccumulator::init, or one call of
\* StatusListener::feed, with the pair of the next packet
FeedApply(r) ==
    /\ ~outcome.panic
    /\ ctor.state \in {"init", "built"}
    /\ ctor' = IF ctor.state = "init" /\ r.accum.init
               THEN [ctor EXCEPT !.state = "built"]
               ELSE ctor
    /\ accum' = r.accum
    /\ status' = r.status
    /\ calib_db' = r.calib_db
    /\ nfed' = nfed + 1
    /\ outcome' = [ev |-> r.ev, full |-> r.full, panic |-> r.panic,
                   became |-> ~accum.init /\ r.accum.init,
                   done |-> outcome.done + (IF r.full = "ok" THEN 1 ELSE 0)]

FeedPair(pair) ==
    /\ FeedApply(feed(accum, status, calib_db, pair))
    /\ fedpair' = pair

\* the variants the cycle being sent can still turn into
Choices(f, allowed) ==
    {f.variant} \cup
    {v \in allowed \ {"A"} : f.variant = "A" /\ DivergeAt(v) = <<f.mini, f.p>>}

FeedScheduled(allowed) ==
    /\ feeder.phase = "run"
    /\ nfed < MaxFeeds
    /\ allowed # {}
    /\ \E v \in Choices(feeder, allowed) :
            /\ FeedPair(PairAt(v, feeder.mini, feeder.p))
            /\ feeder' = Advance(feeder, v)

InitAccum ==
    /\ NoPacket
    /\ rot = <<>>
    /\ sensor = "hdl64"
    /\ TurnInit
    /\ AccumInit
    /\ feeder = [FeederOff EXCEPT !.phase = "run"]
    /\ ctor = CtorRunning
    /\ ExtIdle

\* the variants of the cycle that follows the cycles sent so far; a stream
\* ends after a cycle that has no follower
Followers(past) ==
    IF past = <<>> THEN Variants
    ELSE CASE past[Len(past)] = "A" -> {"A", "B"}
           [] past[Len(past)] = "ret3" -> {"A"}
           [] past[Len(past)] = "pw78" -> {"A", "pw88"}
           [] past[Len(past)] = "baddt" -> {"A", "badcdt"}
           [] past[Len(past)] = "badlaser" -> {"A"}
           [] OTHER -> {}

FeedCycle ==
    FeedScheduled(Followers(feeder.past)) /\ UNCHANGED <<packetVars, extVars, turnVars>>

NextAccum == FeedCycle

SpecAccum == InitAccum /\ [][NextAccum]_vars

-----------------------------------------------------------------------------
(* A status stream that loses packets: the sensor's cycles reach the       *)
(* accumulator up to a cut, then two complete cycles follow from their     *)
(* first pair.                                                             *)

\* where the stream is cut, after the cycles sent so far: (mini, p) is the
\* first pair that is lost
CutPoints(past) ==
    IF past = <<>>
    THEN {<<0, 9>>, <<1, 9>>, <<2, 0>>, <<5, 9>>, <<4 * LASER_COUNT, 0>>,
          <<MINIS - 1, 15>>}
    ELSE CASE past[Len(past)] = "A" -> {<<4, 0>>, <<4 * LASER_COUNT + 2, 9>>}
           [] past[Len(past)] = "ret3" -> {<<1, 9>>}
           [] past[Len(past)] = "badlaser" -> {<<2, 0>>}
           [] OTHER -> {}

HealVariant == "B"

PrefixVariants(past) ==
    IF past = <<>> THEN {"A", "ret3", "badlaser"} ELSE {"A"}

FeedPrefix ==
    FeedScheduled(PrefixVariants(feeder.past)) /\ UNCHANGED <<packetVars, extVars, turnVars>>

Cut ==
    /\ feeder.phase = "run"
    /\ <<feeder.mini, feeder.p>> \in CutPoints(feeder.past)
    /\ feeder' = [feeder EXCEPT !.phase = "heal", !.variant = HealVariant,
                                !.mini = 0, !.p = 0, !.hfed = 0]
    /\ outcome' = [outcome EXCEPT !.done = 0, !.became = FALSE]
    /\ UNCHANGED <<accum, status, calib_db, nfed, fedpair, ctor, packetVars,
                   extVars, turnVars>>

FeedHeal ==
    /\ feeder.phase = "heal"
    /\ feeder.hfed < 2 * CYCLE_PAIRS
    /\ FeedPair(PairAt(HealVariant, feeder.mini, feeder.p))
    /\ feeder' = [Advance(feeder, HealVariant) EXCEPT !.variant = HealVariant,
                                                      !.hfed = feeder.hfed + 1]
    /\ UNCHANGED <<packetVars, extVars, turnVars>>

NextHeal == FeedPrefix \/ Cut \/ FeedHeal

SpecHeal == InitAccum /\ [][NextHeal]_vars

-----------------------------------------------------------------------------
(* PointSource::hdl64_init over a source that may end, fail or be too slow *)
(* while StatusAccumulator::init is looping.                               *)

\* the i/o errors a packet source returns
SourceErrors == {"InvalidData", "WouldBlock"}

\* mutant: an exhausted source is read as one more (empty) status pair
InitFetch_NoneIsPair(res) ==
    CASE res.kind = "err" -> [ok |-> FALSE, err |-> res.err]
      [] OTHER -> [ok |-> TRUE,
                   status |-> IF res.kind = "some" THEN res.status
                              ELSE [id |-> 0, value |-> 0]]

\* packets.next_packet()?.map(get_status).ok_or(Other)? in the loop of init
InitFetch(res) ==
    CASE res.kind = "err" -> [ok |-> FALSE, err |-> res.err]
      [] res.kind = "none" -> [ok |-> FALSE, err |-> "Other"]
      [] OTHER -> [ok |-> TRUE, status |-> res.status]

\* `?` in init, in StatusListener::init and in hdl64_init: the error is the
\* value hdl64_init returns, no PointSource is constructed
InitFails(err) ==
    /\ ctor' = [state |-> "failed", err |-> err]
    /\ UNCHANGED <<accum, status, calib_db, nfed, outcome, fedpair>>

\* one iteration of the loop of init in which next_packet returns `res`
InitIterate(res) ==
    /\ ctor.state = "init"
    /\ LET f == InitFetch(res)
       IN  IF f.ok THEN FeedPair(f.status) ELSE InitFails(f.err)

InitSome ==
    /\ feeder.phase = "run"
    /\ nfed < MaxFeeds
    /\ \E v \in Choices(feeder, IF feeder.past = <<>> THEN {"A", "ret3"} ELSE {}) :
            /\ InitIterate([kind |-> "some",
                            status |-> PairAt(v, feeder.mini, feeder.p)])
            /\ feeder' = [Advance(feeder, v) EXCEPT !.ret = "some"]
    /\ UNCHANGED <<packetVars, extVars, turnVars>>

InitNone ==
    /\ InitIterate([kind |-> "none"])
    /\ feeder' = [feeder EXCEPT !.ret = "end"]
    /\ UNCHANGED <<packetVars, extVars, turnVars>>

InitIoErr ==
    /\ \E e \in SourceErrors :
            /\ InitIterate([kind |-> "err", err |-> e])
            /\ feeder' = [feeder EXCEPT !.ret = e]
    /\ UNCHANGED <<packetVars, extVars, turnVars>>

\* t.elapsed().as_secs() > INIT_TIMEOUT at the top of an iteration
InitTimeout ==
    /\ ctor.state = "init"
    /\ InitFails("TimedOut")
    /\ UNCHANGED <<feeder, packetVars, extVars, turnVars>>

NextInit == InitSome \/ InitNone \/ InitIoErr \/ InitTimeout

SpecInit == InitAccum /\ [][NextInit]_vars

-----------------------------------------------------------------------------
(* Specification of set_split_azimuth on a new TurnIterator: it is called  *)
(* with any u16, then once more with the same value.                       *)

InitSplit ==
    /\ NoPacket
    /\ rot = <<>>
    /\ sensor = "hdl32"
    /\ TurnInit
    /\ AccumIdle
    /\ ExtIdle

SplitCall(val, n) ==
    /\ set_split_azimuth(val)
    /\ probe' = [fn |-> "set_split_azimuth", val |-> val, n |-> n]
    /\ UNCHANGED <<packetVars, accVars, pcapVars, result>>

SplitFirst ==
    /\ probe = NoProbe
    /\ \E val \in 0..U16_MAX : SplitCall(val, 1)

SplitAgain ==
    /\ probe.fn = "set_split_azimuth"
    /\ probe.n = 1
    /\ SplitCall(probe.val, 2)

NextSplit == SplitFirst \/ SplitAgain

SpecSplit == InitSplit /\ [][NextSplit]_vars

-----------------------------------------------------------------------------
(* Specification of a PcapSource: a file is chosen, PcapSource::new is     *)
(* applied to it, then next_packet is called any number of times.          *)

MaxRecs == 3

\* the records of the files: a full Velodyne frame, a longer frame, a
\* short frame, a short frame captured in part, a full frame captured in
\* part, a frame captured with padding
RecordKinds ==
    {[incl_len |-> 1248, orig_len |-> 1248],
     [incl_len |-> 1252, orig_len |-> 1252],
     [incl_len |-> 60, orig_len |-> 60],
     [incl_len |-> 40, orig_len |-> 60],
     [incl_len |-> 100, orig_len |-> 1248],
     [incl_len |-> 1260, orig_len |-> 1248]}

Bodies == UNION {[1..n -> RecordKinds] : n \in 0..MaxRecs}

\* the length of a file that holds all of its records
FullLen(recs) == RecordStart(recs, Len(recs) + 1)

\* the number of bytes missing at the end of a file that was cut
Cuts == {0, 1, 1210, 1240}

GoodHeader ==
    [magic |-> MAGIC_LE_US, version_major |-> 2, version_minor |-> 4,
     network |-> 1]

Headers ==
    {GoodHeader,
     [GoodHeader EXCEPT !.magic = MAGIC_LE_NS],
     [GoodHeader EXCEPT !.magic = MAGIC_BE_US],
     [GoodHeader EXCEPT !.magic = MAGIC_BE_NS],
     [GoodHeader EXCEPT !.magic = <<0, 0, 0, 0>>],
     [GoodHeader EXCEPT !.version_major = 3],
     [GoodHeader EXCEPT !.version_minor = 2],
     [GoodHeader EXCEPT !.network = 101]}

PcapFile(h, recs, flen, debug, do_loop) ==
    [magic |-> h.magic, version_major |-> h.version_major,
     version_minor |-> h.version_minor, network |-> h.network,
     recs |-> recs, flen |-> flen, debug |-> debug, do_loop |-> do_loop]

OneRecord == <<[incl_len |-> 1248, orig_len |-> 1248]>>

PcapFiles ==
    {PcapFile(GoodHeader, recs, FullLen(recs) - c, d, l) :
        recs \in {b \in Bodies : Len(b) > 0}, c \in Cuts, d \in BOOLEAN,
        l \in BOOLEAN}
    \cup {PcapFile(h, OneRecord, FullLen(OneRecord), d, FALSE) :
            h \in Headers, d \in BOOLEAN}
    \cup {PcapFile(GoodHeader, <<>>, n, FALSE, FALSE) : n \in {0, 3, 10, 24, 30}}

PcapClosed == [state |-> "closed", pos |-> 0, is_nano |-> FALSE]

InitPcap ==
    /\ NoPacket
    /\ rot = <<>>
    /\ sensor = None
    /\ TurnInit
    /\ AccumIdle
    /\ CalcIdle
    /\ pfile \in {f \in PcapFiles : f.flen >= 0}
    /\ psrc = PcapClosed
    /\ pret = [op |-> None]

PcapOpen ==
    /\ psrc.state = "closed"
    /\ LET r == pcap_new(pfile)
       IN  /\ psrc' = IF r.kind = "ok"
                      THEN [state |-> "open", pos |-> r.pos,
                            is_nano |-> r.is_nano]
                      ELSE [psrc EXCEPT !.state = r.kind]
           /\ pret' = [op |-> "new", from |-> 0, r |-> r]
    /\ UNCHANGED <<pfile, packetVars, turnVars, accVars, calcVars>>

PcapNext ==
    /\ psrc.state = "open"
    /\ LET r == next_packet(pfile, psrc.pos)
       IN  /\ psrc' = [psrc EXCEPT
                         !.pos = r.pos,
                         !.state = IF r.kind \in {"panic", "diverge"}
                                   THEN r.kind ELSE "open"]
           /\ pret' = [op |-> "next_packet", from |-> psrc.pos, r |-> r]
    /\ UNCHANGED <<pfile, packetVars, turnVars, accVars, calcVars>>

NextPcap == PcapOpen \/ PcapNext

SpecPcap == InitPcap /\ [][NextPcap]_vars

-----------------------------------------------------------------------------
(* SpecCalc: calib_intensity and parse_point_item applied to one input     *)
(* each. probe is the input, result what the function returned.            *)

Intensities == {0, 10, 100, 255}
MinIntensities == {0, 20, 200}

\* raw distances r for which 1 - r/65535 is 1, 4/5, 2/3, 1/3, 1/5, 0
RawDistances == {0, 13107, 21845, 43690, 52428, 65535}

\* focal distances for which 1 - d/13100 is 1, 1/2, 0, -1
FocalDists == {F32(0), F32(6550), F32(13100), F32(26200)}

FocalSlopes == {F32(0), Frac(1, 2), Frac(3, 2), Frac(-1, 2), Frac(1, 10)}

IntensityProbes ==
    [fn : {"calib_intensity"}, done : {FALSE}, intens : Intensities,
     raw_distance : RawDistances,
     calib : [min_intensity : MinIntensities, focal_dist : FocalDists,
              focal_slope : FocalSlopes]]

Num(v) == [num |-> TRUE, v |-> v]
NotNum == [num |-> FALSE]

\* a complete item: laser id, and element n holding scale * n, so that
\* the rotational and the vertical correction differ unless scale is 0
PxItem(id, scale) ==
    [n \in 1..Len(PX_ELEMENTS) |->
        [name |-> PX_ELEMENTS[n],
         text |-> IF n = 1 THEN Num(id) ELSE Num(scale * n)]]

\* the item without element n
PxWithout(item, n) ==
    [k \in 1..(Len(item) - 1) |-> IF k < n THEN item[k] ELSE item[k + 1]]

PxIds == {0, 5, 63, 64, -1}
PxScales == {-7, 0, 3}

PxItems ==
    LET whole == {PxItem(id, s) : id \in PxIds, s \in PxScales}
    IN  whole
        \cup {PxWithout(it, n) : it \in whole, n \in {1, 3, 10}}
        \cup {[it EXCEPT ![n].text = NotNum] : it \in whole, n \in {1, 2, 4}}
        \cup {Append(it, [name |-> "extra_", text |-> Num(1)]) : it \in whole}

PxProbes == [fn : {"parse_point_item"}, done : {FALSE}, item : PxItems]

InitCalc ==
    /\ NoPacket
    /\ rot = <<>>
    /\ sensor = None
    /\ TurnInit
    /\ AccumIdle
    /\ PcapIdle
    /\ probe \in IntensityProbes \cup PxProbes
    /\ result = None

CalcIntensity ==
    /\ probe.fn = "calib_intensity"
    /\ ~probe.done
    /\ result' = calib_intensity(probe.intens, probe.raw_distance, probe.calib)
    /\ probe' = [probe EXCEPT !.done = TRUE]
    /\ UNCHANGED <<packetVars, turnVars, accVars, pcapVars>>

CalcPointItem ==
    /\ probe.fn = "parse_point_item"
    /\ ~probe.done
    /\ result' = parse_point_item(probe.item, CalibDbDefault)
    /\ probe' = [probe EXCEPT !.done = TRUE]
    /\ UNCHANGED <<packetVars, turnVars, accVars, pcapVars>>

NextCalc ==
    \/ CalcIntensity
    \/ CalcPointItem

SpecCalc == InitCalc /\ [][NextCalc]_vars

-----------------------------------------------------------------------------
(* The accumulator fed with the first pairs of a sensor's cycle and then   *)
(* with pairs of any id: the stream reaches every mini-cycle position and  *)
(* then offers every kind of id there.                                     *)

\* the pairs of the cycle that are fed in order
MaxLine == 20

\* the pairs of any id that follow them
MaxArb == 2

\* the nine fixed ids, and '1' and 0xF7 of the ids that are not fixed
AnyIds == {FixedIds[k] : k \in 1..9} \cup {49, 247}

\* a value that is valid in every field of a date, and one that is not
AnyValues == {1, 99}

FeedLine ==
    /\ nfed < MaxLine
    /\ FeedScheduled({"A"})
    /\ UNCHANGED <<packetVars, extVars, turnVars>>

FeedAny ==
    /\ feeder.phase \in {"run", "any"}
    /\ feeder.hfed < MaxArb
    /\ \E id \in AnyIds, value \in AnyValues :
            FeedPair([id |-> id, value |-> value])
    /\ feeder' = [feeder EXCEPT !.phase = "any", !.hfed = feeder.hfed + 1]
    /\ UNCHANGED <<packetVars, extVars, turnVars>>

NextAny == FeedLine \/ FeedAny

SpecAny == InitAccum /\ [][NextAny]_vars

-----------------------------------------------------------------------------
(* The accumulator fed with the first mini-cycles of a sensor whose nine   *)
(* fixed pairs carry a valid window, an invalid date or an unknown GPS     *)
(* code, over a link that may lose a packet: the pairs after a lost one    *)
(* arrive out of position.                                                 *)

\* the mini-cycles that are sent
MaxWindows == 3

\* the packets that are lost
MaxDrops == 1

\* the positions of a mini-cycle at which a packet may be lost
DropPoints == {0, 8, 9, 15}

WindowKinds == {"ok", "date", "gps"}

\* the value of fixed pair p of mini-cycle m: a date of 2020 with the
\* hour m + 1, the 31st of February for "date", and the GPS code 1 for
\* "gps"
WindowValue(kind, m, p) ==
    CASE p = 0 -> m + 1
      [] p = 1 -> 2
      [] p = 2 -> 3
      [] p = 3 -> IF kind = "date" THEN 31 ELSE 4
      [] p = 4 -> IF kind = "date" THEN 2 ELSE 5
      [] p = 5 -> 20
      [] p = 6 -> IF kind = "gps" THEN 1 ELSE <<65, 86, 80, 0>>[(m % 4) + 1]
      [] p = 7 -> 30 + m
      [] p = 8 -> 1 + m

\* the payload of "unit" has the fifth value one higher: "UNIT$"
WindowPair(kind, m, p) ==
    IF p < 9 THEN [id |-> FixedIds[p + 1], value |-> WindowValue(kind, m, p)]
    ELSE IF kind = "unit" /\ p = 13
    THEN [PairAt("A", m, p) EXCEPT !.value = (@ + 1) % 256]
    ELSE PairAt("A", m, p)

\* the sender's position after the pair at (mini, p)
WindowAdvance(f, kind) ==
    IF f.p < MINI_SIZE - 1 THEN [f EXCEPT !.variant = kind, !.p = f.p + 1]
    ELSE [f EXCEPT !.variant = kind, !.mini = f.mini + 1, !.p = 0]

\* the kinds the mini-cycle being sent can be of
WindowChoices(f) ==
    IF f.p # 0 THEN {f.variant}
    ELSE IF f.mini = 0 THEN WindowKinds \cup {"unit"}
    ELSE WindowKinds

WindowFeed ==
    /\ feeder.phase = "run"
    /\ feeder.mini < MaxWindows
    /\ \E kind \in WindowChoices(feeder) :
            /\ FeedPair(WindowPair(kind, feeder.mini, feeder.p))
            /\ feeder' = WindowAdvance(feeder, kind)
    /\ UNCHANGED <<packetVars, extVars, turnVars>>

WindowDrop ==
    /\ feeder.phase = "run"
    /\ feeder.mini < MaxWindows
    /\ feeder.hfed < MaxDrops
    /\ feeder.p \in DropPoints
    /\ \E kind \in WindowChoices(feeder) :
            feeder' = [WindowAdvance(feeder, kind) EXCEPT !.hfed = feeder.hfed + 1]
    /\ UNCHANGED <<accum, status, calib_db, nfed, outcome, fedpair, ctor,
                   packetVars, extVars, turnVars>>

NextWindow == WindowFeed \/ WindowDrop

SpecWindow == InitAccum /\ [][NextWindow]_vars

-----------------------------------------------------------------------------
(* C1: parse_packet yields exactly 12 blocks in offset order; block k      *)
(* yields, in slot order, exactly the slots j of 0..31 whose raw distance  *)
(* bytes are not both zero, and each point's laser field is its slot j.    *)

NonZeroSlots(d, k) ==
    {j \in 0..31 : d[100 * k + 4 + 3 * j] # 0 \/ d[100 * k + 5 + 3 * j] # 0}

C1_BlocksAndSlots ==
    stage = "parsed" =>
        LET d == raw_packet
        IN  /\ Len(parsed.blocks) = 12
            /\ \A k \in 0..11 :
                LET b == parsed.blocks[k + 1]
                    nz == NonZeroSlots(d, k)
                IN  /\ b.header = <<d[100 * k], d[100 * k + 1]>>
                    /\ Len(b.points) = Cardinality(nz)
                    /\ Len(b.points) \in 0..32
                    /\ \A n \in 1..Len(b.points) : b.points[n].laser \in nz
                    /\ \A n \in 1..(Len(b.points) - 1) :
                            b.points[n].laser < b.points[n + 1].laser

\* a block with a dropped slot before a surviving one, an empty block and a
\* full block
C1_Witness ==
    /\ stage = "parsed"
    /\ \E k \in 1..12 : \E n \in 1..Len(parsed.blocks[k].points) :
            parsed.blocks[k].points[n].laser > n - 1
    /\ \E k \in 1..12 : Len(parsed.blocks[k].points) = 0
    /\ \E k \in 1..12 : Len(parsed.blocks[k].points) = 32

(* C2: parse_packet decodes little-endian fields at fixed offsets:         *)
(* timestamp u32 at 1200, packet azimuth u16 at 2, status at 1204 and      *)
(* 1205, block k header at 100k, azimuth u16 at 100k+2, point j distance   *)
(* u16 at 100k+4+3j and intensity at 100k+6+3j.                            *)

C2_Offsets ==
    stage = "parsed" =>
        LET d == raw_packet
        IN  /\ parsed.meta.timestamp =
                  d[1200] + 256 * d[1201] + 65536 * d[1202] + 16777216 * d[1203]
            /\ parsed.meta.azimuth = d[2] + 256 * d[3]
            /\ parsed.meta.status = [id |-> d[1204], value |-> d[1205]]
            /\ \A k \in 0..11 :
                LET b == parsed.blocks[k + 1]
                IN  /\ b.header = <<d[100 * k], d[100 * k + 1]>>
                    /\ b.azimuth = d[100 * k + 2] + 256 * d[100 * k + 3]
                    /\ \A n \in 1..Len(b.points) :
                        LET p == b.points[n]
                            j == p.laser
                        IN  /\ p.distance = d[100 * k + 4 + 3 * j]
                                              + 256 * d[100 * k + 5 + 3 * j]
                            /\ p.intensity = d[100 * k + 6 + 3 * j]

\* a parsed packet whose multi-byte fields have unequal bytes
C2_Witness ==
    /\ stage = "parsed"
    /\ parsed.meta.timestamp = TestTimestamp
    /\ parsed.meta.azimuth = 4096
    /\ \E k \in 1..12 : \E n \in 1..Len(parsed.blocks[k].points) :
            /\ parsed.blocks[k].points[n].distance = 300
            /\ parsed.blocks[k].azimuth = 4096 + 20 * (k - 1)


-----------------------------------------------------------------------------
(* The convertors: C3 to C6                                                *)

HeaderBytes(d, k) == <<d[100 * k], d[100 * k + 1]>>
AzimuthBytes(d, k) == d[100 * k + 2] + 256 * d[100 * k + 3]
DistanceBytes(d, k, j) == d[100 * k + 4 + 3 * j] + 256 * d[100 * k + 5 + 3 * j]

\* the sink was called with the point of slot j of block k
Emitted(k, j) ==
    \E n \in 1..Len(conv.sink) : conv.sink[n].src = [block |-> k, slot |-> j]

(* C3: every point the HDL-64 convertor emits has laser_id = slot for a    *)
(* block with header FF EE and slot + 32 for a block with header FF DD,    *)
(* so in 0..63; every point the HDL-32 convertor emits has laser_id = slot *)
(* in 0..31.                                                               *)

C3_LaserId ==
    LET d == raw_packet
    IN  /\ stage = "hdl64" =>
            \A n \in 1..Len(conv.sink) :
                LET p == conv.sink[n]
                    h == HeaderBytes(d, p.src.block)
                IN  /\ p.src.slot \in 0..31
                    /\ p.distance = DistanceBytes(d, p.src.block, p.src.slot)
                    /\ h = <<255, 238>> => p.laser_id = p.src.slot
                    /\ h = <<255, 221>> => p.laser_id = p.src.slot + 32
                    /\ p.laser_id \in 0..63
        /\ stage = "hdl32" =>
            \A n \in 1..Len(conv.sink) :
                LET p == conv.sink[n]
                IN  /\ p.distance = DistanceBytes(d, p.src.block, p.src.slot)
                    /\ p.laser_id = p.src.slot
                    /\ p.laser_id \in 0..31

\* an HDL-64 packet with points of both banks, laser 63 among them
C3_Witness ==
    /\ stage = "hdl64"
    /\ \E n \in 1..Len(conv.sink) : conv.sink[n].laser_id = 63
    /\ \E n \in 1..Len(conv.sink) : conv.sink[n].laser_id = 7

(* C4 as claimed: when any of the 12 block headers of an HDL-64 packet is  *)
(* neither FF EE nor FF DD, convert returns the error and has called the   *)
(* sink zero times.                                                        *)

C4_ErrorMeansNoSinkCall ==
    stage = "hdl64" =>
        LET d == raw_packet
        IN  (\E k \in 0..11 : HeaderBytes(d, k) \notin {<<255, 238>>, <<255, 221>>})
                => (~conv.ok /\ Len(conv.sink) = 0)

(* C5: Hdl32Convertor.convert returns Ok iff all 12 headers are FF EE;     *)
(* Hdl64Convertor.convert returns Ok iff each is FF EE or FF DD; a header  *)
(* is checked even when its block has no surviving point.                  *)

C5_OkIffHeaders ==
    LET d == raw_packet
    IN  /\ stage = "hdl32" =>
            (conv.ok <=> \A k \in 0..11 : HeaderBytes(d, k) = <<255, 238>>)
        /\ stage = "hdl64" =>
            (conv.ok <=>
                \A k \in 0..11 : HeaderBytes(d, k) \in {<<255, 238>>, <<255, 221>>})

\* HDL-32 rejects a packet whose only other header is FF DD, on a block
\* without any non-zero distance
C5_Witness ==
    /\ stage = "hdl32"
    /\ ~conv.ok
    /\ LET d == raw_packet
       IN  \E k \in 0..11 :
            /\ HeaderBytes(d, k) = <<255, 221>>
            /\ \A i \in 0..11 : i # k => HeaderBytes(d, i) = <<255, 238>>
            /\ \A j \in 0..31 : DistanceBytes(d, k, j) = 0

(* C6: two consecutive blocks with the same azimuth, the same header and   *)
(* identical per-laser distances.                                          *)

TwinBlocks(d, k) ==
    /\ AzimuthBytes(d, k) = AzimuthBytes(d, k + 1)
    /\ HeaderBytes(d, k) = HeaderBytes(d, k + 1)
    /\ \A j \in 0..31 : DistanceBytes(d, k, j) = DistanceBytes(d, k + 1, j)

\* C6 as claimed: the first block's point is emitted and the second
\* block's point is suppressed
C6_FirstEmittedSecondSuppressed ==
    (stage \in {"hdl32", "hdl64"} /\ conv.ok) =>
        LET d == raw_packet
        IN  \A k \in 0..10 : TwinBlocks(d, k) =>
                \A j \in 0..31 : DistanceBytes(d, k, j) # 0 =>
                    (Emitted(k, j) /\ ~Emitted(k + 1, j))

\* C6 amended: exactly one point per laser across the pair; the first
\* block's is the emitted one when no block with the same azimuth precedes
\* the pair
C6_OnePerLaserAcrossPair ==
    (stage \in {"hdl32", "hdl64"} /\ conv.ok) =>
        LET d == raw_packet
        IN  \A k \in 0..10 : TwinBlocks(d, k) =>
                \A j \in 0..31 :
                    /\ ~(Emitted(k, j) /\ Emitted(k + 1, j))
                    /\ DistanceBytes(d, k, j) # 0 =>
                            (Emitted(k, j) \/ Emitted(k + 1, j))
                    /\ (DistanceBytes(d, k, j) # 0
                          /\ (k = 0 \/ AzimuthBytes(d, k - 1) # AzimuthBytes(d, k)))
                            => (Emitted(k, j) /\ ~Emitted(k + 1, j))

\* a pair whose first point is emitted and a pair whose first point is the
\* suppressed one, in one packet
C6_Witness ==
    /\ stage = "hdl64"
    /\ conv.ok
    /\ LET d == raw_packet
       IN  /\ \E k \in 0..10 : \E j \in 0..31 :
                TwinBlocks(d, k) /\ Emitted(k, j) /\ ~Emitted(k + 1, j)
           /\ \E k \in 0..10 : \E j \in 0..31 :
                TwinBlocks(d, k) /\ ~Emitted(k, j) /\ Emitted(k + 1, j)


-----------------------------------------------------------------------------
(* TurnIterator and PointSource: C7 to C10                                 *)

\* s lies in the circular half-open arc (prev, curr] of 0..35999: it is
\* reached by turning from prev by 1 up to the angle from prev to curr
InArc(prev, curr, s) == ((s - prev) % 36000) \in 1..((curr - prev) % 36000)

(* C7: next ends the turn at a packet with azimuth curr, after a packet    *)
(* with azimuth prev and with split azimuth s, exactly when: if            *)
(* prev > curr then not (prev >= s and s > curr), otherwise curr >= s and  *)
(* s > prev; that is iff s lies in the circular arc (prev, curr]; never    *)
(* when prev = curr.                                                       *)

C7_CrossingRule ==
    last.valid =>
        LET prev == last.prev
            curr == last.curr
            s == last.sa
            ended == pc = "idle" /\ last.cut
        IN  /\ (pc = "idle") = last.cut
            /\ ended <=> (IF prev > curr THEN ~(prev >= s /\ s > curr)
                                          ELSE (curr >= s /\ s > prev))
            /\ s \in 0..35999
            /\ (prev < 36000 /\ curr < 36000) => (ended <=> InArc(prev, curr, s))
            /\ prev = curr => ~ended

\* a turn ended by a wrap, with the split azimuth equal to the packet's
C7_Witness ==
    /\ last.valid
    /\ last.prev > last.curr
    /\ last.sa = last.curr
    /\ last.cut
    /\ pc = "idle"
    /\ Len(turns) >= 1

(* C8: over a stream that repeats one rotation of N strictly increasing   *)
(* azimuths, next cuts exactly once in every N consecutive packets, for    *)
(* every split azimuth; with split 0 it cuts exactly at the packets whose  *)
(* azimuth is lower than the previous packet's; every turn after the first *)
(* holds the points of the same number (N) of packets.                     *)

PacketsOf(turn) == {turn.points[i].pkt : i \in 1..Len(turn.points)}

C8_OncePerRotation ==
    rot # <<>> =>
        LET N == Len(rot)
        IN  /\ \A i \in 2..(Len(pulled) - N + 1) :
                    Cardinality({j \in i..(i + N - 1) : pulled[j].cut}) = 1
            /\ split_azimuth = 0 =>
                    \A i \in 1..Len(pulled) :
                        pulled[i].cut <=>
                            (i >= 2 /\ pulled[i].azimuth < pulled[i - 1].azimuth)
            /\ \A t \in 2..Len(turns) :
                    /\ Cardinality(PacketsOf(turns[t])) = N
                    /\ Len(turns[t].points) = Len(turns[2].points)
            /\ Len(pulled) >= N + 1 => Len(turns) >= 1

\* split 0, three packets or more per rotation: the second turn is cut at
\* the second wrap and holds a whole rotation
C8_Witness ==
    /\ Len(rot) >= 3
    /\ split_azimuth = 0
    /\ Len(turns) = 2
    /\ Len(pulled) = 2 * Len(rot) + 1
    /\ pulled[Len(pulled)].cut
    /\ Cardinality(PacketsOf(turns[2])) = Len(rot)

(* C9: the turns yielded by successive calls of next, one after the other, *)
(* are a contiguous run of the points the convertor emitted, in packet     *)
(* arrival order and block-major, slot-minor within a packet; no point is  *)
(* reordered, duplicated across turns or moved to another turn than its    *)
(* packet's.  (Successive: with no call that returned None or an error in  *)
(* between; such a call drops its points.)                                 *)

\* x comes before y in packet arrival, block-major, slot-minor order
Before(x, y) ==
    \/ x.pkt < y.pkt
    \/ /\ x.pkt = y.pkt
       /\ \/ x.point.src.block < y.point.src.block
          \/ /\ x.point.src.block = y.point.src.block
             /\ x.point.src.slot < y.point.src.slot

C9_TurnsInStreamOrder ==
    /\ \A t \in 1..Len(turns) :
        LET T == turns[t]
        IN  /\ Len(T.points) = T.end - T.start
            /\ \A i \in 1..Len(T.points) : T.points[i].seq = T.start + i
            /\ \A i \in 1..(Len(T.points) - 1) : Before(T.points[i], T.points[i + 1])
            /\ T.start >= (IF t = 1 THEN 0 ELSE turns[t - 1].end)
            /\ ~T.gap => T.start = (IF t = 1 THEN 0 ELSE turns[t - 1].end)
            /\ \A u \in 1..(t - 1) : \A i \in PacketsOf(turns[u]) :
                    \A j \in PacketsOf(T) : i < j
    /\ \A i \in 1..Len(buf) :
        /\ buf[i].seq = nsink - Len(buf) + i
        /\ \A u \in 1..Len(turns) : \A j \in PacketsOf(turns[u]) : j < buf[i].pkt
    /\ \A i \in 1..(Len(buf) - 1) : Before(buf[i], buf[i + 1])

\* two turns yielded one after the other, the second with the points of
\* two packets, three points each
C9_Witness ==
    /\ Len(turns) = 2
    /\ ~turns[1].gap /\ ~turns[2].gap
    /\ Len(turns[1].points) = 3
    /\ Len(turns[2].points) = 6
    /\ Cardinality(PacketsOf(turns[2])) = 2

(* C10 as claimed: the accumulator receives the status pair of every       *)
(* pulled packet exactly once and in arrival order.                        *)

C10_EveryPulledStatusFed ==
    fed = [i \in 1..Len(pulled) |-> pulled[i].status]

\* C10 amended: process_points hands the packet to the convertor first and
\* feeds the status pair only when the conversion succeeded, so the
\* accumulator receives the pairs of the converted packets, once each and
\* in arrival order
Converted_ok(p) == p.ok

C10_ConvertedStatusFed ==
    /\ LET good == SelectSeq(pulled, Converted_ok)
       IN  fed = [i \in 1..Len(good) |-> good[i].status]
    /\ \A i \in 1..Len(log) :
        /\ log[i].op = "next_packet" => i = 1
        /\ log[i].op = "convert" =>
                (i = 2 /\ log[1].res = "some" /\ Len(log) = (IF log[i].ok THEN 3 ELSE 2))
        /\ log[i].op = "feed" =>
                (/\ i = 3
                 /\ log[2].op = "convert" /\ log[2].ok
                 /\ log[i].status = pulled[Len(pulled)].status
                 /\ fed[Len(fed)] = log[i].status)
    /\ (Len(log) >= 1 /\ log[1].res = "some") => Len(log) >= 2

\* two packets were converted and fed, and a packet in between was not
C10_Witness ==
    /\ Len(pulled) = 3
    /\ pulled[1].ok /\ ~pulled[2].ok /\ pulled[3].ok
    /\ pulled[1].status # pulled[3].status
    /\ Len(fed) = 2
    /\ Len(log) = 3


-----------------------------------------------------------------------------
(* C11: a pass of TurnIterator::next whose conversion fails returns the    *)
(* error to the caller (the call ends) and changes neither what the        *)
(* status listener was fed (its state and its Status are a function of     *)
(* the fed pairs only), nor prev_azimuth, split_azimuth or cap; the next   *)
(* pass decides its crossing from the azimuth of the last converted        *)
(* packet, as if the failed packet had not been pulled.                    *)

FailedPass ==
    /\ Len(pulled') = Len(pulled) + 1
    /\ ~pulled'[Len(pulled')].ok

LastConvertedAzimuth(n) ==
    LET oks == {i \in 1..n : pulled[i].ok}
    IN  IF oks = {} THEN 0
        ELSE pulled[CHOOSE i \in oks : \A j \in oks : j <= i].azimuth

C11_ErrorLeavesState ==
    /\ [][FailedPass =>
            /\ pc' = "idle"
            /\ log'[Len(log')] = [op |-> "convert", ok |-> FALSE]
            /\ UNCHANGED <<fed, prev_azimuth, split_azimuth, cap, turns>>]_vars
    /\ [](/\ prev_azimuth = LastConvertedAzimuth(Len(pulled))
          /\ last.valid => last.prev = LastConvertedAzimuth(Len(pulled) - 1))

\* a packet failed between two converted ones; the pass after the failure
\* compared against the azimuth of the packet before it
C11_Witness ==
    /\ Len(pulled) = 3
    /\ pulled[1].ok /\ ~pulled[2].ok /\ pulled[3].ok
    /\ pulled[1].azimuth # 0
    /\ pulled[2].azimuth # pulled[1].azimuth
    /\ last.valid /\ last.prev = pulled[1].azimuth
    /\ Len(fed) = 2


-----------------------------------------------------------------------------
(* C12 as claimed: `init` becomes true only in a consume step of           *)
(* SensorState part 2 whose sensor-state buffer decodes with a valid       *)
(* return-mode byte and a valid power-level byte, that is, only when       *)
(* process_full_cycle returns Ok.                                          *)

C12_InitOnlyOnValidDecode ==
    outcome.became =>
        /\ outcome.full = "ok"
        /\ accum.sensor_state[16] \in {0, 1, 2}
        /\ LET v == accum.sensor_state[18]
           IN  v \in {168, 160} \/ (v % 16 = 8 /\ v \div 16 < 8)

(* C13 as claimed: when `init` becomes true, which is when                 *)
(* StatusAccumulator::init returns Ok, the CalibDb it returns was decoded  *)
(* from the 64 laser buffers filled during the pass: record i holds the    *)
(* bytes received for laser i, not the default table.                      *)

C13_InitReturnsDecodedCalib ==
    outcome.became =>
        \A i \in 0..63 :
            /\ accum.lasers[i][0] = i
            /\ calib_db[i] = LaserCalibOf(accum.lasers[i])
            /\ calib_db[i] # LaserCalibDefault

(* C14: whatever pairs are fed, feed does not panic: cycle_pos stays in    *)
(* 0..15, the laser and part of the cycle state stay in 0..63 and 0..3,    *)
(* every laser buffer that process_calib_db can come to read starts with   *)
(* its own laser number (so its assertion holds), and `init` never goes    *)
(* from true back to false.                                                *)

\* the laser buffers whose part 0 was stored in the pass that is under way,
\* or all of them once they are frozen
StoredLasers ==
    LET cs == accum.cycle_state
    IN  IF accum.init \/ cs.tag \in {"CalibrationDt", "SensorState"} THEN 0..63
        ELSE IF cs.tag = "Lasers"
        THEN {l \in 0..63 : l < cs.laser \/ (l = cs.laser /\ cs.part > 0)}
        ELSE {}

C14_FeedNeverPanics ==
    /\ [](/\ ~outcome.panic
          /\ accum.cycle_pos \in 0..15
          /\ accum.cycle_state.laser \in 0..63
          /\ accum.cycle_state.part \in 0..3
          /\ accum.cycle_state # Lasers(63, 3)
          /\ \A l \in StoredLasers : accum.lasers[l][0] = l)
    /\ [][accum.init => accum'.init]_vars

\* the assertion of process_calib_db ran and held after a cycle that sent a
\* wrong laser number and after a loss of packets
C14_Witness ==
    /\ feeder.phase = "heal"
    /\ Len(feeder.past) >= 2
    /\ feeder.past[1] = "badlaser"
    /\ outcome.full = "ok"
    /\ outcome.ev = "consume"
    /\ ~outcome.panic


(* C15: from a fresh accumulator `init` is false as long as fewer than     *)
(* 4160 pairs were fed; while a well-formed cycle is fed the accumulator   *)
(* follows the schedule of 260 mini-cycles of 16 pairs (FirstCycle, the    *)
(* lasers 0..63 with parts 0..3 less laser 63 part 3, CalibrationDt,       *)
(* SensorState 0..2), and the 4160th pair of a well-formed cycle is the    *)
(* one that sets `init`.                                                   *)

C15_InitAtPair4160 ==
    /\ nfed < 4160 => ~accum.init
    /\ (feeder.past = <<>> /\ feeder.variant \in WellFormed) =>
            /\ nfed = 16 * feeder.mini + feeder.p
            /\ accum.cycle_pos = feeder.p
            /\ accum.cycle_state = StateOf(feeder.mini)
            /\ feeder.mini < 260
    /\ (nfed = 4160 /\ feeder.past[1] \in WellFormed) =>
            accum.init /\ outcome.became

\* the 4160th pair of a well-formed cycle has just set `init`
C15_Witness ==
    /\ nfed = 4160
    /\ feeder.past = <<"A">>
    /\ accum.init
    /\ outcome.became
    /\ outcome.ev = "consume"

(* C16: a well-formed cycle that encodes given values, fed pair by pair,   *)
(* gives them back: Status rpm, fov_start, fov_end, real_life_time, both   *)
(* IPv4 addresses, the thresholds, the humidity and the calibration date,  *)
(* and, when the pass is the one that initialises the accumulator, for     *)
(* each laser i the nine signed 16-bit fields and both intensities encoded *)
(* for laser i.                                                            *)

C16_RoundTrip ==
    (outcome.full = "ok" /\ feeder.past # <<>>) =>
        LET v == feeder.past[Len(feeder.past)]
            c == Content(v)
        IN  v \in WellFormed =>
              /\ status.rpm = c.rpm
              /\ status.fov_start = c.fov_start
              /\ status.fov_end = c.fov_end
              /\ status.real_life_time = c.real_life_time
              /\ status.ip_source = c.ip_source
              /\ status.ip_dest = c.ip_dest
              /\ status.upper_threshold = c.upper
              /\ status.lower_threshold = c.lower
              /\ status.humidity = c.humidity
              /\ status.calib_dt =
                    [year |-> 2000 + c.calib_dt[1], month |-> c.calib_dt[2],
                     day |-> c.calib_dt[3], hour |-> c.calib_dt[4],
                     min |-> c.calib_dt[5], sec |-> c.calib_dt[6]]
              /\ outcome.became =>
                    \A i \in 0..63 :
                        LET l == LaserContent(v, i)
                            r == calib_db[i]
                        IN  /\ r.vert_corr_sin = [f |-> "sin", of |-> l.vert_corr]
                            /\ r.vert_corr_cos = [f |-> "cos", of |-> l.vert_corr]
                            /\ r.rot_corr_sin = [f |-> "sin", of |-> l.rot_corr]
                            /\ r.rot_corr_cos = [f |-> "cos", of |-> l.rot_corr]
                            /\ r.dist_correction = l.dist_correction
                            /\ r.dist_corr_x = l.dist_corr_x
                            /\ r.dist_corr_y = l.dist_corr_y
                            /\ r.vert_offset = l.vert_offset
                            /\ r.horiz_offset = l.horiz_offset
                            /\ r.focal_dist = l.focal_dist
                            /\ r.focal_slope = l.focal_slope
                            /\ r.min_intensity = l.min_intensity
                            /\ r.max_intensity = l.max_intensity

\* a first cycle with negative calibration fields was decoded
C16_Witness ==
    /\ outcome.full = "ok"
    /\ outcome.became
    /\ feeder.past = <<"B">>
    /\ calib_db[63].dist_correction = -63
    /\ calib_db[0].vert_corr_sin = [f |-> "sin", of |-> -32]
    /\ status.rpm = 65535

(* C17: process_full_cycle maps sensor-state byte 16 values 0, 1, 2 to     *)
(* Strongest, Last, Both and byte 18 values 0xA8, 0xA0 to AutoNormalized,  *)
(* AutoRaw and a value with low nibble 8 and high nibble n < 8 to          *)
(* Manual(n); any other value of either byte makes the step fail and the   *)
(* state go to FirstCycle. Status.return_type is always one of the three   *)
(* variants and a Manual level is always in 0..7.                          *)

C17_ReturnAndPowerDecode ==
    /\ status.return_type \in {"Strongest", "Last", "Both"}
    /\ status.power_level.kind \in {"AutoNormalized", "AutoRaw", "Manual"}
    /\ status.power_level.kind = "Manual" => status.power_level.level \in 0..7
    /\ outcome.full # None =>
         LET r == accum.sensor_state[16]
             v == accum.sensor_state[18]
             rok == r \in {0, 1, 2}
             vok == v \in {168, 160} \/ (v % 16 = 8 /\ v \div 16 < 8)
         IN  /\ outcome.full = (IF rok /\ vok THEN "ok" ELSE "err")
             /\ rok => status.return_type =
                          (IF r = 0 THEN "Strongest"
                           ELSE IF r = 1 THEN "Last" ELSE "Both")
             /\ (rok /\ vok) => status.power_level =
                          (IF v = 168 THEN [kind |-> "AutoNormalized", level |-> 0]
                           ELSE IF v = 160 THEN [kind |-> "AutoRaw", level |-> 0]
                           ELSE [kind |-> "Manual", level |-> v \div 16])
             /\ ~(rok /\ vok) =>
                    /\ accum.cycle_state = FirstCycle
                    /\ accum.cycle_pos = 0
                    /\ outcome.ev = "consume_err"

\* a power-level byte with low nibble 8 and high nibble 8 was rejected
\* after a cycle whose byte was Manual(7)
C17_Witness ==
    /\ outcome.full = "err"
    /\ accum.sensor_state[18] = 136
    /\ accum.sensor_state[16] = 0
    /\ feeder.past = <<"pw78", "pw88">>
    /\ status.power_level = [kind |-> "Manual", level |-> 7]


(* C18 as claimed: once `init` is true, the pairs fed later change only    *)
(* fields of Status; the CalibDb of the status listener is not modified    *)
(* again.                                                                  *)

C18_CalibFrozenAfterInit ==
    [][accum.init => calib_db' = calib_db]_vars

(* C19: from a reachable accumulator state, two complete well-formed       *)
(* cycles fed from their first pair contain at least one successful        *)
(* process_full_cycle, and every successful one leaves the accumulator at  *)
(* cycle_pos 0 in FirstCycle.                                              *)

C19_HealsInTwoCycles ==
    /\ (feeder.phase = "heal" /\ feeder.hfed = 8320) => outcome.done >= 1
    /\ outcome.full = "ok" =>
            (accum.cycle_pos = 0 /\ accum.cycle_state = FirstCycle /\ accum.init)

\* packets were lost in the first cycle with the accumulator out of step:
\* the first of the two cycles was rejected and the second completed
C19_Witness ==
    /\ feeder.phase = "heal"
    /\ feeder.hfed = 8320
    /\ feeder.past = <<"B", "B">>
    /\ outcome.done = 1
    /\ outcome.full = "ok"
    /\ status.rpm = 65535

(* C20: a date that chrono rejects in the commit of position 8 (`dt`) or   *)
(* in the consume step of CalibrationDt (`calib_dt`) sets the cycle state  *)
(* to FirstCycle, leaves Status.dt (respectively Status.calib_dt) as it    *)
(* was and leaves `init` as it was, so that init does not return.          *)

\* a date no calendar has, whatever the year
NoSuchDate(month, day, h, m, s) ==
    \/ month \notin 1..12
    \/ day \notin 1..31
    \/ (month \in {4, 6, 9, 11} /\ day > 30)
    \/ (month = 2 /\ day > 29)
    \/ h >= 24 \/ m >= 60 \/ s >= 60

C20_InvalidDateSoftReset ==
    /\ [][(/\ accum.cycle_pos = 8 /\ accum'.cycle_pos = 9
           /\ NoSuchDate(accum'.dt[1], accum'.dt[2], accum'.dt[3],
                         accum'.dt[4], accum'.dt[5]))
            => /\ accum'.cycle_state = FirstCycle
               /\ status'.dt = status.dt
               /\ accum'.init = accum.init
               /\ outcome'.ev = "commit_err"]_vars
    /\ [][(/\ accum.cycle_state = CalibrationDt
           /\ accum.cycle_pos = 15 /\ accum.cycle_ids = Ids1234567
           /\ accum'.cycle_ids = Ids1234567
           /\ LET vals == accum'.cycle_values
              IN  NoSuchDate(vals[1], vals[2], vals[3], vals[4], vals[5]))
            => /\ accum'.cycle_state = FirstCycle
               /\ accum'.cycle_pos = 0
               /\ status'.calib_dt = status.calib_dt
               /\ status'.humidity = status.humidity
               /\ accum'.init = accum.init
               /\ outcome'.ev = "consume_err"]_vars

\* an invalid date was committed in the first cycle and an invalid
\* calibration date consumed in the second, the accumulator still waiting
\* for its first full pass
C20_Witness ==
    /\ feeder.past = <<"baddt">>
    /\ feeder.variant = "badcdt"
    /\ outcome.ev = "consume_err"
    /\ accum.cycle_values[1] = 13
    /\ accum.cycle_state = FirstCycle
    /\ ~accum.init
    /\ status.dt.day = 28
    /\ status.calib_dt = default_sensor_status.calib_dt

-----------------------------------------------------------------------------
(* C21: when the packet source returns None while `init` is not set,       *)
(* hdl64_init returns an error (of kind Other) and constructs nothing; an  *)
(* i/o error of the source is the error hdl64_init returns.                *)

C21_InitErrorOnExhaustedSource ==
    /\ [][(ctor.state = "init" /\ feeder'.ret = "end")
            => (ctor' = [state |-> "failed", err |-> "Other"]
                /\ ~accum.init /\ UNCHANGED <<accum, status, calib_db, nfed>>)]_vars
    /\ [][(ctor.state = "init" /\ feeder'.ret \in SourceErrors)
            => (ctor' = [state |-> "failed", err |-> feeder'.ret]
                /\ UNCHANGED <<accum, status, calib_db, nfed>>)]_vars
    /\ [][ctor.state = "failed" => UNCHANGED accVars]_vars
    /\ [](ctor.state = "built" => accum.init)

C21_Witness ==
    /\ ctor = [state |-> "failed", err |-> "Other"]
    /\ feeder.ret = "end"
    /\ nfed = CYCLE_PAIRS - 1
    /\ ~accum.init

-----------------------------------------------------------------------------
(* C22: when the packet source is exhausted, process_points makes no call  *)
(* but next_packet (the sink gets no point, the accumulator no pair) and   *)
(* returns Ok(None); the call of TurnIterator::next then returns None.     *)

C22_ExhaustedSourceReturnsNone ==
    [][(log' # <<>> /\ log'[1].op = "next_packet" /\ log'[1].res = "none"
        /\ split_azimuth' = split_azimuth)
        => (/\ Len(log') = 1
            /\ nsink' = nsink
            /\ fed' = fed
            /\ api'.ret = "none"
            /\ pc' = "idle"
            /\ turns' = turns
            /\ UNCHANGED <<prev_azimuth, split_azimuth, cap, accVars>>)]_vars

C22_Witness ==
    /\ api = NextCall("none")
    /\ log = <<[op |-> "next_packet", res |-> "none"]>>
    /\ nsink > 0
    /\ Len(fed) > 0
    /\ turns = <<>>

-----------------------------------------------------------------------------
(* C23: set_split_azimuth(v) stores v mod 36000, a value of 0..35999, for  *)
(* every u16 v; a second call with the same v changes nothing, and         *)
(* (v mod 36000) mod 36000 = v mod 36000.                                  *)

C23_SplitNormalisedIdempotent ==
    /\ [](/\ split_azimuth \in 0..35999
          /\ probe.fn = "set_split_azimuth" =>
                /\ split_azimuth = probe.val % 36000
                /\ (probe.val % 36000) % 36000 = probe.val % 36000
                /\ split_azimuth % 36000 = split_azimuth)
    /\ [][(probe'.fn = "set_split_azimuth" /\ probe'.n = 2)
            => UNCHANGED turnVars]_vars

C23_Witness ==
    /\ probe.fn = "set_split_azimuth"
    /\ probe.n = 2
    /\ probe.val = U16_MAX
    /\ split_azimuth = U16_MAX - 36000

-----------------------------------------------------------------------------
(* C24: next_packet skips every record whose original length is below      *)
(* 1248 bytes, advancing by its included length, and returns the packet of *)
(* the next record of sufficient length; when the first record is short    *)
(* the first call returns the packet of the second record.                 *)

\* the first record from record i on whose original length is sufficient,
\* 0 if there is none
FirstLong(recs, i) ==
    IF \E j \in i..Len(recs) : recs[j].orig_len >= FRAME_MIN
    THEN CHOOSE j \in i..Len(recs) :
            /\ recs[j].orig_len >= FRAME_MIN
            /\ \A n \in i..(j - 1) : recs[n].orig_len < FRAME_MIN
    ELSE 0

\* record j was captured whole and lies inside the file
WholeRecord(f, j) ==
    /\ f.recs[j].orig_len >= FRAME_MIN
    /\ f.recs[j].orig_len <= f.recs[j].incl_len
    /\ RecordStart(f.recs, j + 1) <= f.flen

\* the offset of the packet of record j: the last PACKET_SIZE bytes of its
\* frame
PacketOf(f, j) ==
    RecordStart(f.recs, j) + RECORD_META + f.recs[j].orig_len - PACKET_SIZE

C24_ShortRecordsSkipped ==
    pret.op = "next_packet" =>
        LET i == RecordAt(pfile, pret.from)
            j == IF i = 0 THEN 0 ELSE FirstLong(pfile.recs, i)
        IN  (j # 0 /\ WholeRecord(pfile, j)) =>
                /\ pret.r.kind = "some"
                /\ pret.r.packet = PacketOf(pfile, j)
                /\ pret.r.skipped = j - i
                /\ psrc.pos = RecordStart(pfile.recs, j + 1)

-----------------------------------------------------------------------------
(* C25: for a record of sufficient original length that was captured in    *)
(* part (incl_len < orig_len), next_packet returns the truncated-packet    *)
(* error and leaves the position at the start of the following record; the *)
(* next call returns that following record.                                *)

C25_TruncatedRecordError ==
    /\ [](pret.op = "next_packet" =>
            LET i == RecordAt(pfile, pret.from)
                j == IF i = 0 THEN 0 ELSE FirstLong(pfile.recs, i)
            IN  (/\ j # 0
                 /\ pfile.recs[j].orig_len > pfile.recs[j].incl_len
                 /\ RecordStart(pfile.recs, j) + RECORD_META <= pfile.flen) =>
                    /\ pret.r.kind = "err"
                    /\ pret.r.err = "InvalidData"
                    /\ psrc.pos = RecordStart(pfile.recs, j + 1))
    /\ [][(/\ pret.op = "next_packet"
           /\ pret.r.kind = "err"
           /\ pret'.op = "next_packet"
           /\ pret'.from = psrc.pos
           /\ psrc' # psrc) =>
            LET k == RecordAt(pfile, psrc.pos)
            IN  (k # 0 /\ WholeRecord(pfile, k)) =>
                    /\ pret'.r.kind = "some"
                    /\ pret'.r.packet = PacketOf(pfile, k)]_vars

-----------------------------------------------------------------------------
(* C26: PcapSource::new on a file with a big-endian magic number returns   *)
(* an error value, as it does on an invalid magic number.                  *)

C26_BigEndianIsAnError ==
    (pret.op = "new" /\ pfile.flen >= 4) =>
        /\ pfile.magic \in {MAGIC_BE_US, MAGIC_BE_NS} => pret.r.kind = "err"
        /\ ~MagicOf(pfile.magic).ok =>
                pret.r = [kind |-> "err", err |-> "InvalidInput"]

-----------------------------------------------------------------------------
(* C27: for every px item the loader parses, it stores sin and cos of      *)
(* rotCorrection_ in rot_corr_sin and rot_corr_cos, and sin and cos of     *)
(* vertCorrection_ in vert_corr_sin and vert_corr_cos, of the laser the    *)
(* item names, and every other field from the element of its own name.     *)
C27_AnglesStoredAsSinCos ==
    (probe.fn = "parse_point_item" /\ probe.done /\ result.kind = "ok") =>
        LET i == probe.item[1].text.v
            rotc == probe.item[2].text.v
            vertc == probe.item[3].text.v
            l == result.db[i]
        IN  /\ l.rot_corr_sin = [f |-> "sin", of |-> rotc]
            /\ l.rot_corr_cos = [f |-> "cos", of |-> rotc]
            /\ l.vert_corr_sin = [f |-> "sin", of |-> vertc]
            /\ l.vert_corr_cos = [f |-> "cos", of |-> vertc]
            /\ l.dist_correction = probe.item[4].text.v
            /\ l.dist_corr_x = probe.item[5].text.v
            /\ l.dist_corr_y = probe.item[6].text.v
            /\ l.vert_offset = probe.item[7].text.v
            /\ l.horiz_offset = probe.item[8].text.v
            /\ l.focal_dist = probe.item[9].text.v
            /\ l.focal_slope = probe.item[10].text.v

-----------------------------------------------------------------------------
\* correction = 256 * focal_slope * |t1^2 - t2^2| of an intensity probe
CorrectionOf(p) ==
    LET t1 == FSub(F32(1), FDiv(p.calib.focal_dist, F32(13100)))
        t2 == FSub(F32(1), FDiv(F32(p.raw_distance), F32(65535)))
        sq == FSub(FMul(t1, t1), FMul(t2, t2))
    IN  FMul(FMul(F32(256), p.calib.focal_slope), FAbs(sq))

\* r is x clipped to [0, 255] and cut to a whole number
ClippedTo(x, r) ==
    /\ r \in 0..255
    /\ FLess(F32(255), x) => r = 255
    /\ FLess(x, F32(0)) => r = 0
    /\ (~FLess(F32(255), x) /\ ~FLess(x, F32(0))) =>
            ~FLess(x, F32(r)) /\ FLess(x, F32(r + 1))

CalcIntensityDone == probe.fn = "calib_intensity" /\ probe.done

(* C28 as stated: the corrected intensity is (intensity - min_intensity)   *)
(* + correction clipped to [0, 255], a negative difference being offset    *)
(* by the correction before clipping.                                      *)
C28_SignedDifferenceClipped ==
    CalcIntensityDone =>
        ClippedTo(FAdd(F32(probe.intens - probe.calib.min_intensity),
                       CorrectionOf(probe)),
                  result)

(* C28 amended: the corrected intensity is max(intensity - min_intensity,  *)
(* 0) + correction clipped to [0, 255]: the difference saturates at 0      *)
(* before the correction is added.                                         *)
C28_SaturatedDifferenceClipped ==
    CalcIntensityDone =>
        LET diff == IF probe.intens < probe.calib.min_intensity THEN 0
                    ELSE probe.intens - probe.calib.min_intensity
        IN  ClippedTo(FAdd(F32(diff), CorrectionOf(probe)), result)

\* an intensity below min_intensity with a correction that shows
C28_Witness ==
    /\ CalcIntensityDone
    /\ probe.intens < probe.calib.min_intensity
    /\ FLess(F32(probe.calib.min_intensity - probe.intens), CorrectionOf(probe))
    /\ result \in 1..254

-----------------------------------------------------------------------------
IntensityBytes(d, k, j) == d[100 * k + 6 + 3 * j]
TimestampBytes(d) ==
    d[1200] + 256 * d[1201] + 65536 * d[1202] + 16777216 * d[1203]

(* C29: every point the HDL-32 convertor emits for slot l of a block with  *)
(* azimuth A (hundredths of a degree) and raw distance r has               *)
(* xyz = (d cos(w) sin(A), d cos(w) cos(A), d sin(w)) with d = r/500 and   *)
(* w entry l of the vertical-angle table, the raw intensity and the        *)
(* packet's timestamp.                                                     *)
C29_Hdl32Projection ==
    (stage = "hdl32" /\ conv.ok) =>
        \A n \in 1..Len(conv.sink) :
            LET pt == conv.sink[n]
                k == pt.src.block
                l == pt.src.slot
                r == DistanceBytes(raw_packet, k, l)
                A == AzimuthBytes(raw_packet, k)
                w == HDL_32_TABLE[l + 1]
                d == [n |-> r \div Gcd(r, 500), d |-> 500 \div Gcd(r, 500)]
            IN  /\ pt.xyz[1] = [dist |-> d, times |-> <<Cos(w), Sin(A)>>]
                /\ pt.xyz[2] = [dist |-> d, times |-> <<Cos(w), Cos(A)>>]
                /\ pt.xyz[3] = [dist |-> d, times |-> <<Sin(w)>>]
                /\ pt.intensity = IntensityBytes(raw_packet, k, l)
                /\ pt.timestamp = TimestampBytes(raw_packet)
                /\ pt.laser_id = l

\* a point of the last laser, at a distance that is no multiple of 500 and
\* an azimuth other than 0, beside a point of another laser
C29_Witness ==
    /\ stage = "hdl32"
    /\ conv.ok
    /\ \E n, m \in 1..Len(conv.sink) :
        /\ conv.sink[n].laser_id = 31
        /\ conv.sink[n].distance % 500 # 0
        /\ conv.sink[n].azimuth # 0
        /\ conv.sink[m].laser_id \notin {15, 31}

-----------------------------------------------------------------------------
\* the pair fed at position p is one feed takes
InPosition(id, p) ==
    \/ p \in 0..8 /\ id = FixedIds[p + 1]
    \/ p \in 9..15 /\ \A k \in 1..9 : id # FixedIds[k]

(* C30: feed accepts a pair at mini-cycle position p iff p is in 0..8 and  *)
(* the id is the p-th of HMSDNYGTV, or p is in 9..15 and the id is none of *)
(* the nine. An accepted pair moves the position to p + 1, 15 to 0 after   *)
(* the consume step, and a data pair is stored in the window at p - 9; a   *)
(* rejected pair sets the position to 0 and leaves the window, the state   *)
(* of the cycle, the Status and the CalibDb as they were.                  *)
C30_FeedAcceptance ==
    [][nfed' = nfed + 1 =>
        LET p == accum.cycle_pos
            id == fedpair'.id
        IN  /\ p \in 0..15
            /\ (outcome'.ev # "reject") <=> InPosition(id, p)
            /\ InPosition(id, p) =>
                /\ accum'.cycle_pos = (p + 1) % 16
                /\ p >= 9 => /\ accum'.cycle_ids[p - 9] = id
                             /\ accum'.cycle_values[p - 9] = fedpair'.value
            /\ ~InPosition(id, p) =>
                /\ accum'.cycle_pos = 0
                /\ accum'.cycle_ids = accum.cycle_ids
                /\ accum'.cycle_values = accum.cycle_values
                /\ accum'.cycle_state = accum.cycle_state
                /\ accum'.init = accum.init
                /\ status' = status
                /\ calib_db' = calib_db]_vars

\* 'H' arrives at position 12 and is rejected, and the 'H' after it is
\* taken at position 0
C30_Witness ==
    /\ feeder.phase = "any"
    /\ feeder.hfed = 2
    /\ nfed = 14
    /\ fedpair.id = 72
    /\ outcome.ev = "fixed"
    /\ accum.cycle_pos = 1

-----------------------------------------------------------------------------
\* a call of feed has returned
FeedStep == nfed' = nfed + 1

\* the call has set the state of the cycle back to FirstCycle
BackToFirstCycle ==
    accum.cycle_state # FirstCycle /\ accum'.cycle_state = FirstCycle

\* a pair out of position changes none of the four
RejectedPairFrame ==
    outcome'.ev = "reject" =>
        /\ accum'.cycle_state = accum.cycle_state
        /\ accum'.init = accum.init
        /\ status' = status
        /\ calib_db' = calib_db

(* C31 as claimed: a rejected pair leaves the cycle state, the Status, the *)
(* CalibDb and the init flag unchanged, and the cycle state is set back to *)
(* FirstCycle only by a failing consume step at position 15.               *)
C31_ResetOnlyByFailingConsume ==
    [][FeedStep =>
        /\ RejectedPairFrame
        /\ BackToFirstCycle =>
              /\ accum.cycle_pos = 15
              /\ outcome'.ev \in {"consume_false", "consume_err"}]_vars

(* C31 amended: a rejected pair leaves the cycle state, the Status, the    *)
(* CalibDb and the init flag unchanged; the cycle state goes back to       *)
(* FirstCycle only on an accepted pair: by a failing consume step at       *)
(* position 15, by a commit at position 8 that update_status refuses, or   *)
(* by the step that completes SensorState part 2.                          *)
C31_ResetOnlyByAcceptedPair ==
    [][FeedStep =>
        /\ RejectedPairFrame
        /\ BackToFirstCycle =>
              \/ /\ accum.cycle_pos = 15
                 /\ outcome'.ev \in {"consume_false", "consume_err"}
              \/ /\ accum.cycle_pos = 8
                 /\ outcome'.ev = "commit_err"
                 /\ fedpair'.id = FixedIds[9]
              \/ /\ accum.cycle_pos = 15
                 /\ accum.cycle_state = SensorState(2)
                 /\ outcome'.ev = "consume"]_vars

\* a pair was rejected while the cycle was past FirstCycle, after a lost
\* packet
C31_Witness ==
    /\ outcome.ev = "reject"
    /\ accum.cycle_state # FirstCycle
    /\ accum.cycle_pos = 0
    /\ feeder.hfed = 1
    /\ nfed > 16

-----------------------------------------------------------------------------
\* the consume step of a pair taken at position 15
ConsumeStep ==
    /\ nfed' = nfed + 1
    /\ accum.cycle_pos = 15
    /\ outcome'.ev # "reject"

\* the window the step consumed matches what Lasers{laser, part} expects
LasersMatch(laser, part, ids, vals) ==
    IF part \in 0..2
    THEN /\ \A i \in 0..6 : ids[i] = 49 + i
         /\ part = 0 => vals[0] = laser
    ELSE /\ ids[0] = 87
         /\ \A i \in 1..6 : ids[i] = 49 + i

(* C32: from Lasers{laser, part} parts 0..2 require the ids '1'..'7' and,  *)
(* for part 0, value 0 equal to laser; part 3 requires 'W','2'..'7'. A     *)
(* matching step moves to part + 1, from part 3 to Lasers{laser + 1, 0},   *)
(* from Lasers{63, 2} to CalibrationDt; a mismatch moves to FirstCycle.    *)
(* In every reachable state laser is in 0..63 and part in 0..3, and        *)
(* Lasers{63, 3} is not reached.                                           *)
C32_LasersTransitions ==
    /\ [](accum.cycle_state.tag = "Lasers" =>
            /\ accum.cycle_state.laser \in 0..63
            /\ accum.cycle_state.part \in 0..3
            /\ accum.cycle_state # [tag |-> "Lasers", laser |-> 63, part |-> 3])
    /\ [][(ConsumeStep /\ accum.cycle_state.tag = "Lasers") =>
            LET laser == accum.cycle_state.laser
                part == accum.cycle_state.part
            IN  accum'.cycle_state =
                    IF ~LasersMatch(laser, part, accum'.cycle_ids,
                                    accum'.cycle_values)
                    THEN [tag |-> "FirstCycle", laser |-> 0, part |-> 0]
                    ELSE IF part = 3
                    THEN [tag |-> "Lasers", laser |-> laser + 1, part |-> 0]
                    ELSE IF laser = 63 /\ part = 2
                    THEN [tag |-> "CalibrationDt", laser |-> 0, part |-> 0]
                    ELSE [tag |-> "Lasers", laser |-> laser, part |-> part + 1]
          ]_vars

\* the step from Lasers{63, 2} to CalibrationDt, in the second cycle after
\* a cut that had left the accumulator out of step
C32_Witness ==
    /\ accum.cycle_state.tag = "CalibrationDt"
    /\ accum.cycle_pos = 0
    /\ outcome.ev = "consume"
    /\ feeder.phase = "heal"
    /\ feeder.hfed > CYCLE_PAIRS

-----------------------------------------------------------------------------
\* the window is the one FirstCycle waits for
FirstCycleMatch(ids, vals) ==
    /\ <<ids[0], ids[1], ids[2], ids[3], ids[4], ids[5], ids[6]>>
            = <<49, 50, 51, 52, 53, 247, 246>>
    /\ <<vals[0], vals[1], vals[2], vals[3], vals[4]>> = <<85, 78, 73, 84, 35>>

(* C33: in FirstCycle the consume step advances to Lasers{0, 0} iff the    *)
(* seven ids are '1','2','3','4','5',0xF7,0xF6 and the first five values   *)
(* are 'U','N','I','T','#', and then stores values 5 and 6 as the upper    *)
(* and lower threshold; on a mismatch the state stays FirstCycle and the   *)
(* thresholds are unchanged.                                               *)
C33_FirstCycleSync ==
    [][(ConsumeStep /\ accum.cycle_state.tag = "FirstCycle") =>
        IF FirstCycleMatch(accum'.cycle_ids, accum'.cycle_values)
        THEN /\ accum'.cycle_state = [tag |-> "Lasers", laser |-> 0, part |-> 0]
             /\ status'.upper_threshold = accum'.cycle_values[5]
             /\ status'.lower_threshold = accum'.cycle_values[6]
        ELSE /\ accum'.cycle_state.tag = "FirstCycle"
             /\ status'.upper_threshold = status.upper_threshold
             /\ status'.lower_threshold = status.lower_threshold]_vars

\* the first mini-cycle arrived with "UNIT$" and thresholds that differ from
\* the stored ones, and left the accumulator in FirstCycle
C33_Witness ==
    /\ nfed = 16
    /\ feeder.variant = "unit"
    /\ outcome.ev = "consume_false"
    /\ accum.cycle_state.tag = "FirstCycle"
    /\ accum.cycle_ids[5] = 247
    /\ accum.cycle_values[4] = 36
    /\ accum.cycle_values[5] # status.upper_threshold

-----------------------------------------------------------------------------
\* the pair 'V' was taken at position 8
CommitStep ==
    /\ nfed' = nfed + 1
    /\ accum.cycle_pos = 8
    /\ outcome'.ev # "reject"

\* the nine values of the window pass the validation of the commit
WindowValid(a) ==
    /\ ~NoSuchDate(a.dt[1], a.dt[2], a.dt[3], a.dt[4], a.dt[5])
    /\ a.gps_val \in {65, 86, 80, 0}

\* what the claim says of a commit step
CommitOutcome ==
    LET a == accum'
    IN  /\ accum'.cycle_pos = 9
        /\ IF WindowValid(a)
           THEN /\ status'.dt = [year |-> a.dt[0] + 2000, month |-> a.dt[1],
                                 day |-> a.dt[2], hour |-> a.dt[3],
                                 min |-> a.dt[4], sec |-> a.dt[5]]
                /\ status'.gps =
                        (CASE a.gps_val = 65 -> "SyncNmea"
                           [] a.gps_val = 86 -> "NmeaOnly"
                           [] a.gps_val = 80 -> "SyncOnly"
                           [] a.gps_val = 0 -> "NotConnected")
                /\ status'.temperature = a.temp_val
                /\ status'.version = a.version_val
                /\ accum'.cycle_state = accum.cycle_state
           ELSE /\ status'.dt = status.dt
                /\ status'.gps = status.gps
                /\ status'.temperature = status.temperature
                /\ status'.version = status.version
                /\ accum'.cycle_state = FirstCycle

(* C34: the commit at position 8 is all-or-nothing. When the window passes *)
(* validation, Status dt, gps, temperature and version are all set from    *)
(* the nine pairs of the window; when it is rejected (invalid date/time or *)
(* unknown GPS code), none of the four changes, the cycle state becomes    *)
(* FirstCycle and the position still advances to 9.                        *)
C34_CommitAllOrNothing == [][CommitStep => CommitOutcome]_vars

-----------------------------------------------------------------------------
\* slot j of block k held a point that the sink did not get
Suppressed(k, j) == DistanceBytes(raw_packet, k, j) # 0 /\ ~Emitted(k, j)

\* block e, before block k, carries the azimuth of block k and emitted the
\* point of the laser of slot j of block k with the same distance
EmittedTwin(e, k, j) ==
    /\ e < k
    /\ AzimuthBytes(raw_packet, e) = AzimuthBytes(raw_packet, k)
    /\ HeaderBytes(raw_packet, e) = HeaderBytes(raw_packet, k)
    /\ DistanceBytes(raw_packet, e, j) = DistanceBytes(raw_packet, k, j)
    /\ Emitted(e, j)

(* C35: whenever the HDL-32 or the HDL-64 convertor suppresses a point, an *)
(* earlier block of the same packet with the azimuth of the current block  *)
(* held a point of the same laser with the same distance that was emitted; *)
(* no point of the first block of a packet is suppressed.                  *)
C35_OnlyTrueDuplicatesDropped ==
    (stage \in {"hdl32", "hdl64"} /\ conv.ok) =>
        /\ \A k \in 0..11 : \A j \in 0..31 :
                Suppressed(k, j) => \E e \in 0..11 : EmittedTwin(e, k, j)
        /\ \A j \in 0..31 : ~Suppressed(0, j)

-----------------------------------------------------------------------------
\* the packet at which the crossing of turn n was detected
CrossingPacket(n) ==
    CHOOSE c \in 1..Len(pulled) :
        pulled[c].cut /\ Cardinality({j \in 1..c : pulled[j].cut}) = n

\* the status pairs of the converted packets among the first c
FedUpTo(c) ==
    LET good == SelectSeq(SubSeq(pulled, 1, c), Converted_ok)
    IN  [i \in 1..Len(good) |-> good[i].status]

(* C36: the points of the packet at which a crossing is detected are the   *)
(* last points of the turn that is yielded; the turn after it, when no     *)
(* call failed or ended in between, starts with the points of the packet   *)
(* that follows; the Status yielded with a turn is that of the listener    *)
(* after the pair of the crossing packet was fed.                          *)
C36_CrossingPacketEndsTurn ==
    /\ Cardinality({c \in 1..Len(pulled) : pulled[c].cut}) = Len(turns)
    /\ \A n \in 1..Len(turns) :
        LET pts == turns[n].points
            c == CrossingPacket(n)
        IN  /\ Len(pts) >= 1
            /\ pts[Len(pts)].pkt = c
            /\ \A i \in 1..(Len(pts) - 1) :
                    /\ pts[i].pkt <= pts[i + 1].pkt
                    /\ pts[i + 1].seq = pts[i].seq + 1
            /\ turns[n].status = FedUpTo(c)
            /\ turns[n].status[Len(turns[n].status)] = pulled[c].status
            /\ (n < Len(turns) /\ ~turns[n + 1].gap) =>
                    /\ turns[n + 1].points[1].pkt = c + 1
                    /\ turns[n + 1].points[1].seq = pts[Len(pts)].seq + 1
    /\ (Len(turns) >= 1 /\ Len(buf) >= 1 /\ ~dropped) =>
            buf[1].pkt = CrossingPacket(Len(turns)) + 1

\* a turn of two packets that ends with the points of its crossing packet,
\* followed by a turn that starts with the next packet
C36_Witness ==
    /\ Len(turns) = 2
    /\ Len(pulled) = 3
    /\ pulled[2].cut /\ pulled[3].cut /\ ~pulled[1].cut
    /\ Cardinality(PacketsOf(turns[1])) = 2
    /\ turns[2].points[1].pkt = 3
    /\ ~turns[2].gap
    /\ Len(turns[1].status) = 2
    /\ Len(turns[2].status) = 3

-----------------------------------------------------------------------------
\* the sink calls, by their number, whose points are in a turn or in the
\* buffer of the running call
Held ==
    UNION {{turns[n].points[i].seq : i \in 1..Len(turns[n].points)} :
                n \in 1..Len(turns)}
    \cup {buf[i].seq : i \in 1..Len(buf)}

\* the sink calls whose points were dropped
Lost == (1..nsink) \ Held

(* C37: when the source is exhausted or a conversion fails before the next *)
(* crossing, next returns None, respectively the error, and yields no      *)
(* turn; the points buffered since the last cut, and those of the failing  *)
(* packet, are dropped: they are in no turn yielded before, and in no turn *)
(* yielded later.                                                          *)
C37_BufferedPointsDropped ==
    /\ [][(Len(log') >= 1 /\ log'[1].res = "none") => api'.ret = "none"]_vars
    /\ [][(FailedPass \/ (Len(log') >= 1 /\ log'[1].res = "err"))
            => api'.ret = "err"]_vars
    /\ [][api'.ret \in {"none", "err"} =>
            /\ turns' = turns
            /\ buf' = <<>>
            /\ pc' = "idle"
            /\ \A q \in (nsink - Len(buf) + 1)..nsink' : q \in Lost']_vars
    /\ [][/\ Lost \subseteq Lost'
          /\ Len(turns') >= Len(turns)
          /\ SubSeq(turns', 1, Len(turns)) = turns]_vars

\* the source ended on a call that had buffered a packet, and a later call
\* yielded a turn without its points
C37_Witness ==
    /\ Len(pulled) = 2
    /\ pulled[1].ok /\ ~pulled[1].cut
    /\ pulled[2].cut
    /\ Len(turns) = 1
    /\ turns[1].gap
    /\ PacketsOf(turns[1]) = {2}
    /\ Lost = {1, 2, 3}
    /\ Len(fed) = 2

-----------------------------------------------------------------------------
\* no meta of a record can be read at `pos`: the position is at the end of
\* the file
PastEnd(f, pos) == pos + RECORD_META > f.flen

(* C38: next_packet always returns: with looping disabled it returns None  *)
(* at the end of the file and on every later call; with looping enabled it *)
(* restarts from the first record at the end of the file and returns a     *)
(* packet, for every file that passed the header checks, a file with no    *)
(* record of sufficient length included.                                   *)
C38_NextPacketAlwaysReturns ==
    /\ [](pret.op = "next_packet" =>
            /\ pret.r.kind \in {"some", "none", "err"}
            /\ (~pfile.do_loop /\ PastEnd(pfile, pret.from)) =>
                    pret.r.kind = "none"
            /\ (pfile.do_loop /\ PastEnd(pfile, pret.from)) =>
                    pret.r.kind = "some")
    /\ [][(/\ ~pfile.do_loop
           /\ pret.op = "next_packet"
           /\ pret.r.kind = "none"
           /\ pret'.op = "next_packet") => pret'.r.kind = "none"]_vars

-----------------------------------------------------------------------------
(* C39: whenever next_packet returns a packet, the assertion               *)
(* buf.len() > pos + PACKET_SIZE holds and the view of PACKET_SIZE bytes   *)
(* it returns lies inside the mapped file, for every record: the last      *)
(* record of the file and a record cut short by the end of the file        *)
(* included.                                                               *)
C39_ViewInsideFile ==
    pret.op = "next_packet" =>
        /\ pret.r.kind # "panic"
        /\ pret.r.kind = "some" =>
                /\ pfile.flen > pret.r.packet + PACKET_SIZE
                /\ pret.r.inside

=============================================================================
